---- MODULE Spec2Model ----
(***************************************************************************)
(* Model of the extraterm backend pty registry (PtyManager), the window   *)
(* close handling of TerminalWindow and the Pty sessions they drive.      *)
(*                                                                         *)
(* The backend runs on one event loop: every handler below is one atomic   *)
(* action.  Handlers are written as operators from a backend state record  *)
(* to a backend state record so that calls compose the way the code calls *)
(* compose (handlePtyCloseRequest -> closePty -> Pty.destroy -> onExit).   *)
(*                                                                         *)
(* The front-end channel bridge (WebIPC: request, handleAsyncIpc,          *)
(* registerDefaultHandler) is modelled the same way on its own state and   *)
(* has its own specifications: BridgeSpec for the correlation of requests  *)
(* and replies, RequestSpec for all request functions, the blocking ones   *)
(* included.                                                               *)
(*                                                                         *)
(* Three further specifications cover the front-end code that meets the    *)
(* backend: EnvSpec (the environment map from _createPtyForTerminal to     *)
(* spawn), HandshakeSpec (closeTab, the pty proxy and the backend close     *)
(* handling, with envelopes travelling both ways) and TabSpec (_shiftTab). *)
(***************************************************************************)
EXTENDS Integers, Sequences, FiniteSets, TLC

\* ------------------------------------------------------------------ bounds
\* Total number of spawn() calls that may succeed in one behaviour.
MaxPty == 2
\* Number of terminal windows (front-end connections).
NumWindows == 2
\* Total number of data-carrying events (pty output chunks, input, resize,
\* output-buffer-size messages) in one behaviour.
MaxMsgs == 1
\* Total number of PTY_INPUT messages and output chunks in one behaviour of
\* the traffic specification.
MaxTraffic == 2

\* Front-end channel bridge: asynchronous requests issued, default handlers
\* registered and inbound envelopes dispatched in one behaviour.
MaxRequests == 3
MaxHandlers == 2
MaxInbound == 3

\* Front-end tab widget: tab contents in the widget, _shiftTab calls in one
\* behaviour.
MaxTabs == 4
MaxShifts == 3

Windows == 1..NumWindows
Handles == 1..MaxPty
\* Ids a front-end may name in a message; an id is unknown to the backend
\* before it is allocated and after its session is removed.
MsgIds == 1..MaxPty
Data == {"a", "b"}
Sizes == {10, 20}
Columns == {80}
Rows == {24}
\* The fromPtyId of a PTY_CREATE: 0 stands for an absent fromPtyId.
FromIds == 0..MaxPty
\* What getCwd() may return: nothing, the empty string, a directory.
NoCwd == "none"
Cwds == {NoCwd, "", "/home"}
BufferSizeChanges == {[totalBufferSize |-> 10, availableDelta |-> 5]}

VARIABLES
  ptyMap,          \* PtyManager.ptyMap: id -> PtyTuple
  ptyCounter,      \* PtyManager.ptyCounter
  ptys,            \* the Pty sessions spawned so far, by handle (spawn order)
  win,             \* per window: "open" or "closed" (its webContents destroyed)
  sent,            \* envelopes sent by the backend, in send order
  msgs,            \* number of data-carrying events so far (bounded by MaxMsgs)
  created,         \* history: the ids of the PTY_CREATED replies, in reply order
  closeRequested,  \* history: ids of live sessions a PTY_CLOSE_REQUEST named
  last,            \* the handler that ran last, whether it found a session, what it threw
  emitted,         \* history: per Pty, the chunks it emitted and whether its session was alive
  trace,           \* history: what the handler that ran last did (send, destroy, delete), in order
  written,         \* history: per id, the data of the PTY_INPUT messages that named it while registered
  promiseQueue,    \* front-end: the pending entries {promiseResolve, messageType}
  defaultHandlers, \* front-end: the registered default handlers {messageType, handler}
  ipcSent,         \* front-end: the envelopes handed to ipc.send, in send order
  delivered,       \* history: the resolver and handler calls made by handleAsyncIpc, in call order
  dispatched,      \* history: the number of inbound envelopes dispatched so far
  syncCall,        \* history: the last ipc.sendSync call: envelope, reply, value returned
  procEnv,         \* front-end: process.env
  extraEnv,        \* front-end: the extraEnv of the session profile
  envHeap,         \* backend: the environment map objects, by reference; 1 is msg.env
  spawnEnv,        \* backend: the reference of the env given to spawn, 0 before spawn
  closeTabCalls,   \* front-end: per session id, the closeTab calls for its terminal tab
  fetched,         \* backend: the number of envelopes of ipcSent it has handled
  recv,            \* front-end: the number of envelopes of sent dispatched to it
  tabWidget,       \* front-end: a tab widget: number of tab contents, selected index, focused content
  shiftLog         \* history: the _shiftTab calls: selected index before, direction

\* No ipc.sendSync call was made yet.
NoSyncCall == [msg |-> [type |-> "none"], reply |-> [type |-> "none"], ret |-> "none"]

backendVars ==
  <<ptyMap, ptyCounter, ptys, win, sent, msgs, created, closeRequested, last,
    emitted, written, trace>>

bridgeVars ==
  <<promiseQueue, defaultHandlers, ipcSent, delivered, dispatched, syncCall>>

envVars == <<procEnv, extraEnv, envHeap, spawnEnv>>

tabVars == <<tabWidget, shiftLog>>

uiVars == <<closeTabCalls, fetched, recv, tabVars>>

vars == <<backendVars, bridgeVars, envVars, uiVars>>

\* ------------------------------------------------------------- map helpers
MapDelete(m, k) == [x \in (DOMAIN m) \ {k} |-> m[x]]

MapSet(m, k, v) == [x \in (DOMAIN m) \cup {k} |-> IF x = k THEN v ELSE m[x]]

\* Map.keys() iterates in insertion order; a key is inserted once, when its
\* id is allocated, so the snapshot is the keys in ascending order.
RECURSIVE SortedKeys(_)
SortedKeys(S) ==
  IF S = {} THEN <<>>
  ELSE LET k == CHOOSE x \in S : \A y \in S : x <= y
       IN <<k>> \o SortedKeys(S \ {k})

MapKeys(m) == SortedKeys(DOMAIN m)

\* ptyMap.delete(id) on the backend state s
Deregister(s, id) ==
  [s EXCEPT !.ptyMap = MapDelete(@, id), !.trace = Append(@, "delete")]

\* The backend state the handlers read and write.
Cur ==
  [ptyMap |-> ptyMap, ptyCounter |-> ptyCounter, ptys |-> ptys, win |-> win,
   sent |-> sent, err |-> "none", trace |-> <<>>, ret |-> 0]

\* --------------------------------------------------------------- connection
\* sender.isDestroyed()
isDestroyed(s, w) == s.win[w] # "open"

\* sender.send(CHANNEL_NAME, msg)
send(s, w, msg) ==
  [s EXCEPT !.sent = Append(@, [type |-> msg.type, id |-> msg.id,
                                data |-> msg.data, win |-> w,
                                live |-> ~isDestroyed(s, w)]),
            !.trace = Append(@, "send")]

\* ---------------------------------------------------------------- the Pty
\* A freshly spawned Pty with the three handlers of createPty wired; the
\* handlers close over `sender` and `ptyId`.
NewPty(w, id, ptyOptions) ==
  [sender |-> w, ptyId |-> id, destroyCalls |-> 0, exited |-> FALSE,
   calls |-> <<>>, options |-> ptyOptions]

\* ptyTerm.destroy() on a Pty whose exit has already been notified: the call
\* is counted and has no further effect (destroy is idempotent).
Pty_destroyCall(s, h) ==
  [s EXCEPT !.ptys[h].destroyCalls = @ + 1, !.trace = Append(@, "destroy")]

\* ptyTerm.write / resize / permittedDataSize
Pty_call(s, h, c) == [s EXCEPT !.ptys[h].calls = Append(@, c)]

\* ------------------------------------------------------- PtyManager handlers
\* Mutant of onData: the envelope is sent twice.
onData_Twice(s, h, data) ==
  LET c == s.ptys[h]
      m == [type |-> "PTY_OUTPUT", id |-> c.ptyId, data |-> data]
  IN IF ~isDestroyed(s, c.sender) THEN send(send(s, c.sender, m), c.sender, m) ELSE s

\* ptyTerm.onData handler of createPty
onData(s, h, data) ==
  LET c == s.ptys[h] IN
  IF ~isDestroyed(s, c.sender)
  THEN send(s, c.sender, [type |-> "PTY_OUTPUT", id |-> c.ptyId, data |-> data])
  ELSE s

\* Mutant of onExit: the PTY_CLOSE envelope is not sent.
onExit_Silent(s, h) ==
  LET s2 == Pty_destroyCall(s, h)
  IN Deregister(s2, s.ptys[h].ptyId)

\* Mutant of onExit: the Pty is destroyed and the id removed before the
\* PTY_CLOSE envelope is sent.
onExit_DestroyFirst(s, h) ==
  LET c  == s.ptys[h]
      s1 == Deregister(Pty_destroyCall(s, h), c.ptyId)
  IN IF ~isDestroyed(s, c.sender)
     THEN send(s1, c.sender, [type |-> "PTY_CLOSE", id |-> c.ptyId, data |-> ""])
     ELSE s1

\* Mutant of onExit: the whole handler is skipped when the connection is
\* destroyed.
onExit_OnlyIfAlive(s, h) ==
  LET c  == s.ptys[h]
  IN IF ~isDestroyed(s, c.sender)
     THEN Deregister(
            Pty_destroyCall(
              send(s, c.sender, [type |-> "PTY_CLOSE", id |-> c.ptyId, data |-> ""]),
              h),
            c.ptyId)
     ELSE s

\* Mutant of onExit: the id is left in the map.
onExit_KeepsEntry(s, h) ==
  LET c  == s.ptys[h]
      s1 == IF ~isDestroyed(s, c.sender)
            THEN send(s, c.sender, [type |-> "PTY_CLOSE", id |-> c.ptyId, data |-> ""])
            ELSE s
  IN Pty_destroyCall(s1, h)

\* ptyTerm.onExit handler of createPty
onExit(s, h) ==
  LET c  == s.ptys[h]
      s1 == IF ~isDestroyed(s, c.sender)
            THEN send(s, c.sender, [type |-> "PTY_CLOSE", id |-> c.ptyId, data |-> ""])
            ELSE s
      s2 == Pty_destroyCall(s1, h)
  IN Deregister(s2, c.ptyId)

\* Mutant of onAvailableWriteBufferSizeChange: the envelope is tagged with
\* the id allocated last instead of the id of the session of the Pty.
onAvailableWriteBufferSizeChange_LatestId(s, h, bufferSizeChange) ==
  send(s, s.ptys[h].sender,
       [type |-> "PTY_INPUT_BUFFER_SIZE_CHANGE", id |-> s.ptyCounter,
        data |-> bufferSizeChange])

\* ptyTerm.onAvailableWriteBufferSizeChange handler of createPty
onAvailableWriteBufferSizeChange(s, h, bufferSizeChange) ==
  LET c == s.ptys[h]
  IN send(s, c.sender,
          [type |-> "PTY_INPUT_BUFFER_SIZE_CHANGE", id |-> c.ptyId,
           data |-> bufferSizeChange])

\* The Pty notifies its exit: once per Pty.
Pty_fireExit(s, h) ==
  IF s.ptys[h].exited THEN s
  ELSE onExit([s EXCEPT !.ptys[h].exited = TRUE], h)

\* ptyTerm.destroy(): terminates the child.  Whether the exit notification
\* is delivered from inside destroy() or later from the event loop is the
\* Pty's choice: `sync` is the set of handles that notify from inside.
Pty_destroy(s, h, sync) ==
  LET s1 == Pty_destroyCall(s, h)
  IN IF h \in sync THEN Pty_fireExit(s1, h) ELSE s1

\* Mutant of closePty: the lookup result is used without the undefined check.
closePty_NoCheck(s, id, sync) ==
  IF id \notin DOMAIN s.ptyMap THEN [s EXCEPT !.err = "TypeError"]
  ELSE LET s1 == Pty_destroy(s, s.ptyMap[id].ptyTerm, sync)
       IN Deregister(s1, id)

\* Mutant of closePty: closePty announces the close to the front-end itself.
closePty_Notifies(s, id, sync) ==
  IF id \notin DOMAIN s.ptyMap THEN s
  ELSE LET h  == s.ptyMap[id].ptyTerm
           s1 == Pty_destroy(s, h, sync)
           s2 == send(s1, s.ptys[h].sender,
                      [type |-> "PTY_CLOSE", id |-> id, data |-> ""])
       IN Deregister(s2, id)

\* Mutant of closePty: the entries of all sessions of the same window are
\* deleted with the one closed.
closePty_RemovesWindow(s, id, sync) ==
  IF id \notin DOMAIN s.ptyMap THEN s
  ELSE LET s1 == Pty_destroy(s, s.ptyMap[id].ptyTerm, sync)
           w  == s.ptyMap[id].windowId
           gone == {k \in DOMAIN s1.ptyMap : s1.ptyMap[k].windowId = w} \cup {id}
       IN [s1 EXCEPT !.ptyMap = [k \in (DOMAIN s1.ptyMap) \ gone |-> s1.ptyMap[k]],
                     !.trace = Append(@, "delete")]

\* PtyManager.closePty
closePty(s, id, sync) ==
  IF id \notin DOMAIN s.ptyMap THEN s
  ELSE LET s1 == Pty_destroy(s, s.ptyMap[id].ptyTerm, sync)
       IN Deregister(s1, id)

\* tup.windowId === windowId in PtyManager.cleanUpPtyWindow
ownedBy(tup, windowId) == tup.windowId = windowId

\* The loop of PtyManager.cleanUpPtyWindow over the snapshot `keys`.
RECURSIVE cleanUpLoop(_, _, _, _)
cleanUpLoop(s, keys, windowId, sync) ==
  IF keys = <<>> \/ s.err # "none" THEN s
  ELSE LET key == Head(keys) IN
       IF key \notin DOMAIN s.ptyMap
       THEN [s EXCEPT !.err = "TypeError"]      \* tup is undefined: tup.windowId throws
       ELSE cleanUpLoop(IF ownedBy(s.ptyMap[key], windowId)
                        THEN closePty(s, key, sync) ELSE s,
                        Tail(keys), windowId, sync)

\* PtyManager.cleanUpPtyWindow
cleanUpPtyWindow(s, windowId, sync) ==
  cleanUpLoop(s, MapKeys(s.ptyMap), windowId, sync)


\* Mutant of AllocPtyId: the increment is lost.
AllocPtyId_NoIncrement(s) == s.ptyCounter

\* Mutant of AllocPtyId: the id is derived from the size of the map, so the
\* id of a removed session is handed out again.
AllocPtyId_Reuse(s) == Cardinality(DOMAIN s.ptyMap) + 1

\* this.ptyCounter++; const ptyId = this.ptyCounter;
AllocPtyId(s) == s.ptyCounter + 1

\* Mutant of NewPtyTuple: the id of the first window is recorded instead of
\* the id of the window of the sender.
NewPtyTuple_FirstWindow(windowId, h) ==
  [windowId |-> 1, ptyTerm |-> h, outputBufferSize |-> 0, outputPaused |-> TRUE]

\* The PtyTuple registered by createPty.
NewPtyTuple(windowId, h) ==
  [windowId |-> windowId, ptyTerm |-> h, outputBufferSize |-> 0,
   outputPaused |-> TRUE]

\* if (fromPtyId): an absent fromPtyId and the number 0 are falsy.
TruthyId(x) == x # 0

\* if (cwd): null, undefined and the empty string are falsy.
TruthyCwd(x) == x \notin {NoCwd, ""}

\* Mutant of InheritedCwd: the lookup of fromPtyId in the map is skipped.
InheritedCwd_NoLookup(s, fromPtyId, cwd) ==
  IF TruthyId(fromPtyId) /\ TruthyCwd(cwd) THEN cwd ELSE NoCwd

\* The cwd createPty puts into ptyOptions; `cwd` is what getCwd() of the
\* fromPtyId session returns when it is asked.
InheritedCwd(s, fromPtyId, cwd) ==
  IF TruthyId(fromPtyId) /\ fromPtyId \in DOMAIN s.ptyMap /\ TruthyCwd(cwd)
  THEN cwd ELSE NoCwd

\* The ptyOptions createPty passes to PtyConnector.spawn.
PtyOptions(s, fromPtyId, cwd) ==
  [name |-> "xterm", cwd |-> InheritedCwd(s, fromPtyId, cwd)]

\* Mutant of createPty: the id is allocated before spawn is called.
createPty_AllocFirst(s, sender, fromPtyId, cwd, spawnOk) ==
  IF ~spawnOk THEN [s EXCEPT !.err = "SpawnError", !.ptyCounter = @ + 1]
  ELSE LET h     == Len(s.ptys) + 1
           ptyId == AllocPtyId(s)
       IN [s EXCEPT !.ptyCounter = ptyId,
                    !.ret = ptyId,
                    !.ptyMap = MapSet(@, ptyId, NewPtyTuple(sender, h)),
                    !.ptys = Append(@, NewPty(sender, ptyId,
                                              PtyOptions(s, fromPtyId, cwd)))]

\* PtyManager.createPty.  `spawnOk` is the outcome of PtyConnector.spawn: a
\* failed spawn throws out of createPty before anything is registered.
createPty(s, sender, fromPtyId, cwd, spawnOk) ==
  IF ~spawnOk THEN [s EXCEPT !.err = "SpawnError"]
  ELSE LET h     == Len(s.ptys) + 1
           ptyId == AllocPtyId(s)
       IN [s EXCEPT !.ptyCounter = ptyId,
                    !.ret = ptyId,
                    !.ptyMap = MapSet(@, ptyId, NewPtyTuple(sender, h)),
                    !.ptys = Append(@, NewPty(sender, ptyId,
                                              PtyOptions(s, fromPtyId, cwd)))]

\* Mutant of handlePtyCreate: the reply carries the value the counter had
\* when the request arrived.
handlePtyCreate_StaleId(s, sender, fromPtyId, cwd, spawnOk) ==
  LET t == createPty(s, sender, fromPtyId, cwd, spawnOk)
  IN IF t.err # "none" THEN t
     ELSE [t EXCEPT !.ret = [type |-> "PTY_CREATED", id |-> s.ptyCounter]]

\* PtyManager.handlePtyCreate: the reply is the value returned.
handlePtyCreate(s, sender, fromPtyId, cwd, spawnOk) ==
  LET t == createPty(s, sender, fromPtyId, cwd, spawnOk)
  IN IF t.err # "none" THEN t
     ELSE [t EXCEPT !.ret = [type |-> "PTY_CREATED", id |-> t.ret]]

\* Mutant of handlePtyInput: the lookup result is used without the undefined
\* check.
handlePtyInput_NoCheck(s, id, data) ==
  IF id \notin DOMAIN s.ptyMap THEN [s EXCEPT !.err = "TypeError"]
  ELSE Pty_call(s, s.ptyMap[id].ptyTerm, [op |-> "write", data |-> data])

\* Mutant of handlePtyInput: the data is written in front of what the Pty was
\* given before.
handlePtyInput_Prepend(s, id, data) ==
  IF id \notin DOMAIN s.ptyMap THEN s
  ELSE [s EXCEPT !.ptys[s.ptyMap[id].ptyTerm].calls =
                   <<[op |-> "write", data |-> data]>> \o @]

\* PtyManager.handlePtyInput
handlePtyInput(s, id, data) ==
  IF id \notin DOMAIN s.ptyMap THEN s
  ELSE Pty_call(s, s.ptyMap[id].ptyTerm, [op |-> "write", data |-> data])

\* Mutant of handlePtyOutputBufferSize: the size is also stored in the tuple
\* and the output is resumed.
handlePtyOutputBufferSize_Stores(s, id, size) ==
  IF id \notin DOMAIN s.ptyMap THEN s
  ELSE LET s1 == [s EXCEPT !.ptyMap[id].outputBufferSize = size,
                           !.ptyMap[id].outputPaused = FALSE]
       IN Pty_call(s1, s.ptyMap[id].ptyTerm, [op |-> "permittedDataSize", size |-> size])

\* PtyManager.handlePtyOutputBufferSize
handlePtyOutputBufferSize(s, id, size) ==
  IF id \notin DOMAIN s.ptyMap THEN s
  ELSE Pty_call(s, s.ptyMap[id].ptyTerm, [op |-> "permittedDataSize", size |-> size])

\* Mutant of handlePtyResize: rows and columns are passed in the wrong order.
handlePtyResize_Swapped(s, id, columns, rows) ==
  IF id \notin DOMAIN s.ptyMap THEN s
  ELSE Pty_call(s, s.ptyMap[id].ptyTerm,
                [op |-> "resize", columns |-> rows, rows |-> columns])

\* PtyManager.handlePtyResize
handlePtyResize(s, id, columns, rows) ==
  IF id \notin DOMAIN s.ptyMap THEN s
  ELSE Pty_call(s, s.ptyMap[id].ptyTerm,
                [op |-> "resize", columns |-> columns, rows |-> rows])

\* Mutant of handlePtyCloseRequest: a request for an id that is not
\* registered is answered with a PTY_CLOSE on the first window.
handlePtyCloseRequest_AnswersUnknown(s, id, sync) ==
  IF id \notin DOMAIN s.ptyMap
  THEN send(s, 1, [type |-> "PTY_CLOSE", id |-> id, data |-> ""])
  ELSE closePty(s, id, sync)

\* PtyManager.handlePtyCloseRequest
handlePtyCloseRequest(s, id, sync) ==
  IF id \notin DOMAIN s.ptyMap THEN s
  ELSE closePty(s, id, sync)

\* --------------------------------------------------- TerminalWindow handlers
\* Mutant of TW_closePty: the Pty is destroyed but the id stays in the map.
TW_closePty_NoDelete(s, id, sync) ==
  IF id \notin DOMAIN s.ptyMap THEN s
  ELSE Pty_destroy(s, s.ptyMap[id].ptyTerm, sync)

\* TerminalWindow.closePty
TW_closePty(s, id, sync) ==
  IF id \notin DOMAIN s.ptyMap THEN s
  ELSE LET s1 == Pty_destroy(s, s.ptyMap[id].ptyTerm, sync)
       IN Deregister(s1, id)

\* Mutant of TW_ownedBy: the comparison is dropped, every session is closed.
TW_ownedBy_Any(tup, windowId) == TRUE

\* tup.windowId === windowId in TerminalWindow.cleanUpPtyWindow
TW_ownedBy(tup, windowId) == tup.windowId = windowId

\* The loop of TerminalWindow.cleanUpPtyWindow over the snapshot `keys`.
RECURSIVE TW_cleanUpLoop(_, _, _, _)
TW_cleanUpLoop(s, keys, windowId, sync) ==
  IF keys = <<>> \/ s.err # "none" THEN s
  ELSE LET key == Head(keys) IN
       IF key \notin DOMAIN s.ptyMap
       THEN [s EXCEPT !.err = "TypeError"]
       ELSE TW_cleanUpLoop(IF TW_ownedBy(s.ptyMap[key], windowId)
                           THEN TW_closePty(s, key, sync) ELSE s,
                           Tail(keys), windowId, sync)

\* TerminalWindow.cleanUpPtyWindow
TW_cleanUpPtyWindow(s, windowId, sync) ==
  TW_cleanUpLoop(s, MapKeys(s.ptyMap), windowId, sync)

\* TerminalWindow.handlePtyCloseRequest
TW_handlePtyCloseRequest(s, id, sync) ==
  IF id \notin DOMAIN s.ptyMap THEN s
  ELSE TW_closePty(s, id, sync)

\* ------------------------------------------------------------------ actions
\* `hit`: whether the handler found a session to act on; `err`: what it threw.
Last(op, hit, err) == [op |-> op, hit |-> hit, err |-> err]

\* The backend state after a handler returned `t`.
InstallBackend(t) ==
  /\ ptyMap' = t.ptyMap
  /\ ptyCounter' = t.ptyCounter
  /\ ptys' = t.ptys
  /\ sent' = t.sent
  /\ trace' = t.trace

Install(t) ==
  /\ InstallBackend(t)
  /\ UNCHANGED <<bridgeVars, envVars, uiVars>>

\* The ids registered for window w.
Owned(w) == {id \in DOMAIN ptyMap : ptyMap[id].windowId = w}

\* Whether a close of `id` reaches a registered session.
CloseRequests(s, id) ==
  IF id \in DOMAIN s.ptyMap THEN closeRequested \cup {id} ELSE closeRequested

\* An environment map without a key.
EmptyEnv == [k \in {} |-> ""]

InitBackend ==
  /\ ptyMap = <<>>
  /\ ptyCounter = 0
  /\ ptys = <<>>
  /\ win = [w \in Windows |-> "open"]
  /\ sent = <<>>
  /\ msgs = 0
  /\ created = <<>>
  /\ closeRequested = {}
  /\ last = Last("init", FALSE, "none")
  /\ emitted = [h \in Handles |-> <<>>]
  /\ written = [id \in MsgIds |-> <<>>]
  /\ trace = <<>>

InitBridge ==
  /\ promiseQueue = <<>>
  /\ defaultHandlers = <<>>
  /\ ipcSent = <<>>
  /\ delivered = <<>>
  /\ dispatched = 0
  /\ syncCall = NoSyncCall

\* No terminal was created yet; the environment of the front-end process is
\* empty.
InitEnv ==
  /\ procEnv = EmptyEnv
  /\ extraEnv = EmptyEnv
  /\ envHeap = <<>>
  /\ spawnEnv = 0

\* No tab was closed, no envelope was handled.
InitUi ==
  /\ closeTabCalls = [id \in MsgIds |-> 0]
  /\ fetched = 0
  /\ recv = 0

\* A tab widget without tab contents: nothing is selected or focused.
EmptyTabWidget == [len |-> 0, selectedIndex |-> -1, focused |-> -1]

InitTabs ==
  /\ tabWidget = EmptyTabWidget
  /\ shiftLog = <<>>

Init == InitBackend /\ InitBridge /\ InitEnv /\ InitUi /\ InitTabs

\* A PTY_CREATE arrives from the front-end of window w.
HandlePtyCreate(w, fromPtyId, cwd, spawnOk) ==
  /\ win[w] = "open"
  /\ Len(ptys) < MaxPty
  /\ LET t == handlePtyCreate(Cur, w, fromPtyId, cwd, spawnOk) IN
     /\ Install(t)
     /\ created' = IF t.err = "none" THEN Append(created, t.ret.id) ELSE created
     /\ last' = Last("handlePtyCreate", t.err = "none", t.err)
  /\ UNCHANGED <<win, msgs, closeRequested, emitted, written>>

\* A PTY_INPUT arrives; `budget` bounds the data-carrying events of the run.
HandlePtyInputWithin(id, data, budget) ==
  /\ msgs < budget
  /\ LET t == handlePtyInput(Cur, id, data) IN
     /\ Install(t)
     /\ last' = Last("handlePtyInput", id \in DOMAIN ptyMap, t.err)
  /\ msgs' = msgs + 1
  /\ written' = IF id \in DOMAIN ptyMap
                THEN [written EXCEPT ![id] = Append(@, data)] ELSE written
  /\ UNCHANGED <<win, created, closeRequested, emitted>>

HandlePtyInput(id, data) == HandlePtyInputWithin(id, data, MaxMsgs)

\* A PTY_OUTPUT_BUFFER_SIZE arrives.
HandlePtyOutputBufferSize(id, size) ==
  /\ msgs < MaxMsgs
  /\ LET t == handlePtyOutputBufferSize(Cur, id, size) IN
     /\ Install(t)
     /\ last' = Last("handlePtyOutputBufferSize", id \in DOMAIN ptyMap, t.err)
  /\ msgs' = msgs + 1
  /\ UNCHANGED <<win, created, closeRequested, emitted, written>>

\* A PTY_RESIZE arrives.
HandlePtyResize(id, columns, rows) ==
  /\ msgs < MaxMsgs
  /\ LET t == handlePtyResize(Cur, id, columns, rows) IN
     /\ Install(t)
     /\ last' = Last("handlePtyResize", id \in DOMAIN ptyMap, t.err)
  /\ msgs' = msgs + 1
  /\ UNCHANGED <<win, created, closeRequested, emitted, written>>

\* A PTY_CLOSE_REQUEST arrives and is handled by PtyManager.
HandlePtyCloseRequest(id, sync) ==
  /\ LET t == handlePtyCloseRequest(Cur, id, sync) IN
     /\ Install(t)
     /\ last' = Last("handlePtyCloseRequest", id \in DOMAIN ptyMap, t.err)
  /\ closeRequested' = CloseRequests(Cur, id)
  /\ UNCHANGED <<win, msgs, created, emitted, written>>

\* A PTY_CLOSE_REQUEST arrives and is handled by TerminalWindow.
TWHandlePtyCloseRequest(id, sync) ==
  /\ LET t == TW_handlePtyCloseRequest(Cur, id, sync) IN
     /\ Install(t)
     /\ last' = Last("TW.handlePtyCloseRequest", id \in DOMAIN ptyMap, t.err)
  /\ closeRequested' = CloseRequests(Cur, id)
  /\ UNCHANGED <<win, msgs, created, emitted, written>>

\* PtyManager.closePty is called directly.
ClosePty(id, sync) ==
  /\ LET t == closePty(Cur, id, sync) IN
     /\ Install(t)
     /\ last' = Last("closePty", id \in DOMAIN ptyMap, t.err)
  /\ UNCHANGED <<win, msgs, created, closeRequested, emitted, written>>

\* PtyManager.cleanUpPtyWindow is called directly.
CleanUpPtyWindow(w, sync) ==
  /\ LET t == cleanUpPtyWindow(Cur, w, sync) IN
     /\ Install(t)
     /\ last' = Last("cleanUpPtyWindow", Owned(w) # {}, t.err)
  /\ UNCHANGED <<win, msgs, created, closeRequested, emitted, written>>

\* Window w is closed: its webContents is destroyed and the 'closed' handler
\* of TerminalWindow.initialize runs, in the same turn of the event loop.
WindowClosed(w, sync) ==
  /\ win[w] = "open"
  /\ LET t == TW_cleanUpPtyWindow([Cur EXCEPT !.win[w] = "closed"], w, sync) IN
     /\ Install(t)
     /\ last' = Last("closed", Owned(w) # {}, t.err)
  /\ win' = [win EXCEPT ![w] = "closed"]
  /\ UNCHANGED <<msgs, created, closeRequested, emitted, written>>

\* Whether the session of the Pty with handle h is alive: registered, its
\* exit not notified.
Alive(h) ==
  /\ ~ptys[h].exited
  /\ ptys[h].ptyId \in DOMAIN ptyMap
  /\ ptyMap[ptys[h].ptyId].ptyTerm = h

\* The Pty with handle h emits a chunk of output; `budget` bounds the
\* data-carrying events of the run.
PtyDataWithin(h, data, budget) ==
  /\ h \in 1..Len(ptys)
  /\ ~ptys[h].exited
  /\ msgs < budget
  /\ LET t == onData(Cur, h, data) IN
     /\ Install(t)
     /\ last' = Last("onData", ~isDestroyed(Cur, ptys[h].sender), t.err)
  /\ msgs' = msgs + 1
  /\ emitted' = [emitted EXCEPT ![h] = Append(@, [data |-> data, alive |-> Alive(h)])]
  /\ UNCHANGED <<win, created, closeRequested, written>>

PtyData(h, data) == PtyDataWithin(h, data, MaxMsgs)

\* The Pty with handle h reports a change of its write buffer; `budget`
\* bounds the data-carrying events of the run.
PtyBufferSizeChangeWithin(h, bufferSizeChange, budget) ==
  /\ h \in 1..Len(ptys)
  /\ ~ptys[h].exited
  /\ msgs < budget
  /\ LET t == onAvailableWriteBufferSizeChange(Cur, h, bufferSizeChange) IN
     /\ Install(t)
     /\ last' = Last("onAvailableWriteBufferSizeChange", TRUE, t.err)
  /\ msgs' = msgs + 1
  /\ UNCHANGED <<win, created, closeRequested, emitted, written>>

PtyBufferSizeChange(h, bufferSizeChange) ==
  PtyBufferSizeChangeWithin(h, bufferSizeChange, MaxMsgs)

\* The Pty with handle h notifies its exit from the event loop: its child
\* exited by itself or was terminated by destroy().
PtyExit(h) ==
  /\ h \in 1..Len(ptys)
  /\ ~ptys[h].exited
  /\ LET t == Pty_fireExit(Cur, h) IN
     /\ Install(t)
     /\ last' = Last("onExit", ~isDestroyed(Cur, ptys[h].sender), t.err)
  /\ UNCHANGED <<win, msgs, created, closeRequested, emitted, written>>

SyncChoices == {{}, Handles}

\* The backend driven by front-ends that create every session without a
\* fromPtyId.
Next ==
  \/ \E w \in Windows, spawnOk \in BOOLEAN : HandlePtyCreate(w, 0, NoCwd, spawnOk)
  \/ \E id \in MsgIds, data \in Data : HandlePtyInput(id, data)
  \/ \E id \in MsgIds, size \in Sizes : HandlePtyOutputBufferSize(id, size)
  \/ \E id \in MsgIds, columns \in Columns, rows \in Rows : HandlePtyResize(id, columns, rows)
  \/ \E id \in MsgIds, sync \in SyncChoices : HandlePtyCloseRequest(id, sync)
  \/ \E id \in MsgIds, sync \in SyncChoices : TWHandlePtyCloseRequest(id, sync)
  \/ \E id \in MsgIds, sync \in SyncChoices : ClosePty(id, sync)
  \/ \E w \in Windows, sync \in SUBSET Handles : CleanUpPtyWindow(w, sync)
  \/ \E w \in Windows, sync \in SUBSET Handles : WindowClosed(w, sync)
  \/ \E h \in Handles, data \in Data : PtyData(h, data)
  \/ \E h \in Handles, c \in BufferSizeChanges : PtyBufferSizeChange(h, c)
  \/ \E h \in Handles : PtyExit(h)

Spec == Init /\ [][Next]_vars

\* The exit notification of a Pty whose child destroy() has terminated is
\* delivered by the event loop.
PtyExitAfterDestroy(h) ==
  /\ h \in 1..Len(ptys)
  /\ ptys[h].destroyCalls > 0
  /\ PtyExit(h)

Fairness == \A h \in Handles : WF_vars(PtyExitAfterDestroy(h))

FairSpec == Init /\ [][Next]_vars /\ Fairness

\* The sessions under input and output traffic: sessions are created, fed
\* PTY_INPUT messages, emit output, are closed on request, exit, and lose
\* their window, with up to MaxTraffic messages and chunks.
TrafficNext ==
  \/ \E w \in Windows, spawnOk \in BOOLEAN : HandlePtyCreate(w, 0, NoCwd, spawnOk)
  \/ \E id \in MsgIds, data \in Data : HandlePtyInputWithin(id, data, MaxTraffic)
  \/ \E h \in Handles, data \in Data : PtyDataWithin(h, data, MaxTraffic)
  \/ \E h \in Handles, c \in BufferSizeChanges :
       PtyBufferSizeChangeWithin(h, c, MaxTraffic)
  \/ \E id \in MsgIds, sync \in SyncChoices : HandlePtyCloseRequest(id, sync)
  \/ \E w \in Windows, sync \in SyncChoices : WindowClosed(w, sync)
  \/ \E h \in Handles : PtyExit(h)

TrafficSpec == Init /\ [][TrafficNext]_vars

\* Sessions created with a fromPtyId: the new session asks the session named
\* by fromPtyId, if registered, for its working directory.  The sessions
\* receive input, resize and buffer-size messages, are closed on request,
\* exit, and lose their window.
InheritNext ==
  \/ \E w \in Windows, fromPtyId \in FromIds, cwd \in Cwds, spawnOk \in BOOLEAN :
       HandlePtyCreate(w, fromPtyId, cwd, spawnOk)
  \/ \E id \in MsgIds, data \in Data : HandlePtyInput(id, data)
  \/ \E id \in MsgIds, size \in Sizes : HandlePtyOutputBufferSize(id, size)
  \/ \E id \in MsgIds, columns \in Columns, rows \in Rows : HandlePtyResize(id, columns, rows)
  \/ \E id \in MsgIds, sync \in SyncChoices : HandlePtyCloseRequest(id, sync)
  \/ \E w \in Windows, sync \in SyncChoices : WindowClosed(w, sync)
  \/ \E h \in Handles : PtyExit(h)

InheritSpec == Init /\ [][InheritNext]_vars

\* ------------------------------------------------- front-end channel bridge
\* The reply kinds asynchronous requests wait for, and the kinds of envelope
\* the backend may send: replies and unsolicited pushes.
ReplyKinds == {"CONFIG", "THEME_LIST"}
InboundKinds == ReplyKinds \cup {"PTY_OUTPUT"}
Payloads == {1, 2}

\* The bridge state the functions of the bridge read and write.
CurBridge ==
  [promiseQueue |-> promiseQueue, defaultHandlers |-> defaultHandlers,
   ipcSent |-> ipcSent, delivered |-> delivered, syncCall |-> syncCall]

InstallBridgeState(b) ==
  /\ promiseQueue' = b.promiseQueue
  /\ defaultHandlers' = b.defaultHandlers
  /\ ipcSent' = b.ipcSent
  /\ delivered' = b.delivered
  /\ syncCall' = b.syncCall

InstallBridge(b) ==
  /\ InstallBridgeState(b)
  /\ UNCHANGED <<backendVars, envVars, uiVars>>

\* registerDefaultHandler: the handler is identified by its registration
\* number.
registerDefaultHandler(b, type) ==
  [b EXCEPT !.defaultHandlers =
              Append(@, [messageType |-> type, handler |-> Len(@) + 1])]

\* p.messageType === msg.type
MatchesKind(p, msg) == p.messageType = msg.type

\* Mutant of ResolveAll: the matching entries are resolved newest first.
ResolveAll_Reversed(matchingPromises, msg, at) ==
  [k \in 1..Len(matchingPromises) |->
     [who |-> "promise",
      n |-> matchingPromises[Len(matchingPromises) + 1 - k].promise,
      msg |-> msg, at |-> at]]

\* tup.promiseResolve(msg) for every tup of matchingPromises, in order.
ResolveAll(matchingPromises, msg, at) ==
  [k \in 1..Len(matchingPromises) |->
     [who |-> "promise", n |-> matchingPromises[k].promise, msg |-> msg, at |-> at]]

\* tup.handler(msg) for every default handler registered for the kind of
\* msg, in registration order.
CallDefaultHandlers(handlers, msg, at) ==
  LET hs == SelectSeq(handlers, LAMBDA tup : MatchesKind(tup, msg))
  IN [k \in 1..Len(hs) |->
        [who |-> "handler", n |-> hs[k].handler, msg |-> msg, at |-> at]]

\* Mutant of handleAsyncIpc: only the oldest matching entry is resolved and
\* removed.
handleAsyncIpc_OldestOnly(b, msg, at) ==
  LET matchingPromises == SelectSeq(b.promiseQueue, LAMBDA q : MatchesKind(q, msg))
      first == CHOOSE i \in 1..Len(b.promiseQueue) :
                 /\ MatchesKind(b.promiseQueue[i], msg)
                 /\ \A j \in 1..(i - 1) : ~MatchesKind(b.promiseQueue[j], msg)
  IN IF Len(matchingPromises) = 0
     THEN [b EXCEPT !.delivered = @ \o CallDefaultHandlers(b.defaultHandlers, msg, at)]
     ELSE [b EXCEPT !.promiseQueue =
                      SubSeq(@, 1, first - 1) \o SubSeq(@, first + 1, Len(@)),
                    !.delivered = @ \o ResolveAll(<<matchingPromises[1]>>, msg, at)]

\* Mutant of handleAsyncIpc: the default handlers are called whether or not
\* a pending entry matched.
handleAsyncIpc_AlwaysDefault(b, msg, at) ==
  LET matchingPromises == SelectSeq(b.promiseQueue, LAMBDA q : MatchesKind(q, msg))
      nonMatchingPromises == SelectSeq(b.promiseQueue, LAMBDA q : ~MatchesKind(q, msg))
  IN [b EXCEPT !.promiseQueue = nonMatchingPromises,
               !.delivered = @ \o ResolveAll(matchingPromises, msg, at)
                               \o CallDefaultHandlers(b.defaultHandlers, msg, at)]

\* Mutant of handleAsyncIpc: every pending entry is dropped from the queue,
\* the matching ones resolved.
handleAsyncIpc_ClearsQueue(b, msg, at) ==
  LET matchingPromises == SelectSeq(b.promiseQueue, LAMBDA q : MatchesKind(q, msg))
      b1 == [b EXCEPT !.promiseQueue = <<>>,
                      !.delivered = @ \o ResolveAll(matchingPromises, msg, at)]
  IN IF Len(matchingPromises) = 0
     THEN [b1 EXCEPT !.delivered = @ \o CallDefaultHandlers(b.defaultHandlers, msg, at)]
     ELSE b1

\* Mutant of handleAsyncIpc: the resolved entries stay in the queue.
handleAsyncIpc_KeepsResolved(b, msg, at) ==
  LET matchingPromises == SelectSeq(b.promiseQueue, LAMBDA q : MatchesKind(q, msg))
      b1 == [b EXCEPT !.delivered = @ \o ResolveAll(matchingPromises, msg, at)]
  IN IF Len(matchingPromises) = 0
     THEN [b1 EXCEPT !.delivered = @ \o CallDefaultHandlers(b.defaultHandlers, msg, at)]
     ELSE b1

\* handleAsyncIpc: `at` numbers the inbound envelope.
handleAsyncIpc(b, msg, at) ==
  LET matchingPromises == SelectSeq(b.promiseQueue, LAMBDA q : MatchesKind(q, msg))
      nonMatchingPromises == SelectSeq(b.promiseQueue, LAMBDA q : ~MatchesKind(q, msg))
      b1 == [b EXCEPT !.promiseQueue = nonMatchingPromises,
                      !.delivered = @ \o ResolveAll(matchingPromises, msg, at)]
  IN IF Len(matchingPromises) = 0
     THEN [b1 EXCEPT !.delivered = @ \o CallDefaultHandlers(b.defaultHandlers, msg, at)]
     ELSE b1

\* Mutant of request: the envelope is sent but no pending entry is pushed.
request_NoPush(b, msg, replyType) ==
  [b EXCEPT !.ipcSent = Append(@, msg)]

\* Mutant of request: the pending entry is put at the head of the queue.
request_PushFront(b, msg, replyType) ==
  LET b1 == [b EXCEPT !.ipcSent = Append(@, msg)]
  IN [b1 EXCEPT !.promiseQueue =
                  <<[promise |-> Len(b1.ipcSent), messageType |-> replyType]>> \o @]

\* request: the promise is identified by the place of its request in the
\* envelopes sent.
request(b, msg, replyType) ==
  LET b1 == [b EXCEPT !.ipcSent = Append(@, msg)]
  IN [b1 EXCEPT !.promiseQueue =
                  Append(@, [promise |-> Len(b1.ipcSent), messageType |-> replyType])]

\* requestConfig
requestConfig(b) == request(b, [type |-> "CONFIG_REQUEST"], "CONFIG")

\* requestThemeList
requestThemeList(b) == request(b, [type |-> "THEME_LIST_REQUEST"], "THEME_LIST")

\* requestThemeContents
requestThemeContents(b, themeIdList, cssFileList) ==
  request(b, [type |-> "THEME_CONTENTS_REQUEST", themeIdList |-> themeIdList,
              cssFileList |-> cssFileList], "THEME_CONTENTS")

\* The PTY_CREATE envelope of requestPtyCreate: fromPtyId is a field of it
\* only when it is truthy.
CreatePtyRequestMessage(columns, rows, fromPtyId) ==
  IF TruthyId(fromPtyId)
  THEN [type |-> "PTY_CREATE", columns |-> columns, rows |-> rows,
        fromPtyId |-> fromPtyId]
  ELSE [type |-> "PTY_CREATE", columns |-> columns, rows |-> rows]

\* requestPtyCreate
requestPtyCreate(b, columns, rows, fromPtyId) ==
  request(b, CreatePtyRequestMessage(columns, rows, fromPtyId), "PTY_CREATED")

\* Mutant of requestNewTag: the request waits for a CONFIG envelope.
requestNewTag_WrongReply(b) ==
  request(b, [type |-> "NEW_TAG_REQUEST", async |-> TRUE], "CONFIG")

\* requestNewTag
requestNewTag(b) ==
  request(b, [type |-> "NEW_TAG_REQUEST", async |-> TRUE], "NEW_TAG")

\* Mutant of requestNewTagSync: the call also goes through request().
requestNewTagSync_ViaQueue(b, reply) ==
  LET msg == [type |-> "NEW_TAG_REQUEST", async |-> FALSE]
      b1 == request(b, msg, "NEW_TAG")
  IN [b1 EXCEPT !.syncCall = [msg |-> msg, reply |-> reply, ret |-> reply.tag]]

\* requestNewTagSync: `reply` is what ipc.sendSync returns; the function
\* returns its tag.
requestNewTagSync(b, reply) ==
  LET msg == [type |-> "NEW_TAG_REQUEST", async |-> FALSE]
  IN [b EXCEPT !.syncCall = [msg |-> msg, reply |-> reply, ret |-> reply.tag]]

\* createBulkFileSync: `reply` is what ipc.sendSync returns; the function
\* returns its identifier and url.
createBulkFileSync(b, metadata, size, reply) ==
  LET msg == [type |-> "BULK_FILE_CREATE", metadata |-> metadata, size |-> size]
  IN [b EXCEPT !.syncCall =
                 [msg |-> msg, reply |-> reply,
                  ret |-> [identifier |-> reply.identifier, url |-> reply.url]]]

\* The front-end calls requestConfig().
RequestConfig ==
  /\ Len(ipcSent) < MaxRequests
  /\ InstallBridge(requestConfig(CurBridge))
  /\ UNCHANGED dispatched

\* The front-end calls requestThemeList().
RequestThemeList ==
  /\ Len(ipcSent) < MaxRequests
  /\ InstallBridge(requestThemeList(CurBridge))
  /\ UNCHANGED dispatched

\* The front-end calls registerDefaultHandler(type, handler).
RegisterDefaultHandler(type) ==
  /\ Len(defaultHandlers) < MaxHandlers
  /\ InstallBridge(registerDefaultHandler(CurBridge, type))
  /\ UNCHANGED dispatched

\* An envelope from the backend arrives on the channel.
HandleAsyncIpc(msg) ==
  /\ dispatched < MaxInbound
  /\ InstallBridge(handleAsyncIpc(CurBridge, msg, dispatched + 1))
  /\ dispatched' = dispatched + 1

\* The front-end calls requestThemeContents(themeIdList, cssFileList).
RequestThemeContents ==
  /\ Len(ipcSent) < MaxRequests
  /\ InstallBridge(requestThemeContents(CurBridge, <<"theme">>, <<"cssFile">>))
  /\ UNCHANGED dispatched

\* The front-end calls requestPtyCreate(..., fromPtyId).
RequestPtyCreate(fromPtyId) ==
  /\ Len(ipcSent) < MaxRequests
  /\ InstallBridge(requestPtyCreate(CurBridge, 80, 24, fromPtyId))
  /\ UNCHANGED dispatched

\* The front-end calls requestNewTag().
RequestNewTag ==
  /\ Len(ipcSent) < MaxRequests
  /\ InstallBridge(requestNewTag(CurBridge))
  /\ UNCHANGED dispatched

\* The front-end calls requestNewTagSync(); the main process answers the
\* blocking call with `reply`.
RequestNewTagSync(reply) ==
  /\ InstallBridge(requestNewTagSync(CurBridge, reply))
  /\ UNCHANGED dispatched

\* The front-end calls createBulkFileSync(metadata, size); the main process
\* answers the blocking call with `reply`.
CreateBulkFileSync(reply) ==
  /\ InstallBridge(createBulkFileSync(CurBridge, "metadata", 10, reply))
  /\ UNCHANGED dispatched

Inbound == [type : InboundKinds, payload : Payloads]

\* The replies of the main process to the blocking calls.
NewTagReplies == [type : {"NEW_TAG"}, tag : {"tag1", "tag2"}]

BulkFileReplies ==
  [type : {"BULK_FILE_CREATED"}, identifier : {"bulk1", "bulk2"}, url : {"url1"}]

\* The reply kinds of all request functions, as inbound envelopes.
AllReplyKinds == {"CONFIG", "THEME_LIST", "THEME_CONTENTS", "PTY_CREATED", "NEW_TAG"}

AllReplies == [type : AllReplyKinds, payload : {1}]

\* All request functions of the bridge, asynchronous and blocking, and the
\* dispatch of their replies.
RequestNext ==
  \/ RequestConfig
  \/ RequestThemeList
  \/ RequestThemeContents
  \/ \E fromPtyId \in {0, 1} : RequestPtyCreate(fromPtyId)
  \/ RequestNewTag
  \/ \E reply \in NewTagReplies : RequestNewTagSync(reply)
  \/ \E reply \in BulkFileReplies : CreateBulkFileSync(reply)
  \/ \E msg \in AllReplies : HandleAsyncIpc(msg)

RequestSpec == Init /\ [][RequestNext]_vars

BridgeNext ==
  \/ RequestConfig
  \/ RequestThemeList
  \/ \E type \in InboundKinds : RegisterDefaultHandler(type)
  \/ \E msg \in Inbound : HandleAsyncIpc(msg)

BridgeSpec == Init /\ [][BridgeNext]_vars

\* ------------------------------------------------------------ observations
\* The handles of the sessions that were registered under id (ids are never
\* shared, see C3_IdsStrictlyIncreasing).
HandlesOf(id) == {h \in 1..Len(ptys) : ptys[h].ptyId = id}

\* The envelopes of type `type` sent for id.
SentFor(type, id) == {i \in 1..Len(sent) : sent[i].type = type /\ sent[i].id = id}

\* C7 (amended): a PTY_CLOSE_REQUEST{id} for a live session is eventually
\* followed by a PTY_CLOSE{id} sent on the connection that created the
\* session, unless that connection is destroyed before the exit notification
\* is delivered.
C7_CloseRequestLeadsToClose ==
  \A id \in MsgIds :
    (id \in closeRequested)
      ~> (\E h \in HandlesOf(id) :
            \/ \E i \in SentFor("PTY_CLOSE", id) : sent[i].win = ptys[h].sender
            \/ win[ptys[h].sender] # "open")


\* ------------------------------------------------------------------ claims
\* The steps in which the window-close handling of window w runs.
CleanUpStep(w) ==
  /\ last'.op \in {"cleanUpPtyWindow", "closed"}
  /\ \E sync \in SUBSET Handles : CleanUpPtyWindow(w, sync) \/ WindowClosed(w, sync)

\* The envelopes a step appends to `sent`.
NewlySent == {i \in 1..Len(sent') : i > Len(sent)}

\* C1: no session outlives its owning window.  Once the close handling of
\* window W has run, no map entry has windowId W and the Pty of every session
\* W owned has been destroyed; and in every state a closed window owns no
\* registered session and every Pty created for it has been destroyed.
C1_NoSessionOutlivesWindow ==
  /\ [](\A w \in Windows :
          win[w] = "closed" =>
            /\ Owned(w) = {}
            /\ \A h \in 1..Len(ptys) :
                 ptys[h].sender = w => ptys[h].destroyCalls >= 1)
  /\ [][\A w \in Windows :
          CleanUpStep(w) =>
            /\ \A id \in DOMAIN ptyMap' : ptyMap'[id].windowId # w
            /\ \A id \in Owned(w) :
                 ptys'[ptyMap[id].ptyTerm].destroyCalls >= 1]_vars

\* C1 witness: the window of a registered session was closed after an
\* earlier create and an earlier exit, and its session is gone and destroyed.
C1_Witness ==
  /\ last.op = "closed" /\ last.hit
  /\ \E w \in Windows, h \in 1..Len(ptys) :
       /\ win[w] = "closed"
       /\ ptys[h].sender = w
       /\ ~ptys[h].exited
       /\ ptys[h].destroyCalls = 1
       /\ ptys[h].ptyId \notin DOMAIN ptyMap
  /\ \E h \in 1..Len(ptys) : ptys[h].exited

\* C2: cleanUpPtyWindow(W) destroys exactly the sessions W owns.  A session
\* of another window keeps its map entry, its Pty gets no call and no
\* envelope carries its id; the sessions removed are those W owned.
C2_CleanUpFrame ==
  [][\A w \in Windows :
       CleanUpStep(w) =>
         /\ \A id \in DOMAIN ptyMap :
              ptyMap[id].windowId # w =>
                /\ id \in DOMAIN ptyMap'
                /\ ptyMap'[id] = ptyMap[id]
                /\ ptys'[ptyMap[id].ptyTerm] = ptys[ptyMap[id].ptyTerm]
                /\ \A i \in NewlySent : sent'[i].id # id
         /\ DOMAIN ptyMap' = (DOMAIN ptyMap) \ Owned(w)
         /\ Cardinality(DOMAIN ptyMap) - Cardinality(DOMAIN ptyMap')
              = Cardinality(Owned(w))]_vars

\* C2 witness: a window that owned a session was closed while a session of
\* another window stays registered and undestroyed.
C2_Witness ==
  /\ last.op = "closed" /\ last.hit
  /\ \E w \in Windows, id \in DOMAIN ptyMap :
       /\ win[w] = "closed"
       /\ ptyMap[id].windowId # w
       /\ ptys[ptyMap[id].ptyTerm].destroyCalls = 0

\* C3: session ids are unique and strictly increasing: every createPty
\* returns an id greater than every id returned before, whatever was closed,
\* exited or cleaned up in between.
C3_IdsStrictlyIncreasing ==
  /\ \A i, j \in 1..Len(created) : i < j => created[i] < created[j]
  /\ \A g, h \in 1..Len(ptys) : g # h => ptys[g].ptyId # ptys[h].ptyId

\* C3 witness: a create returned its id after the session of an earlier id
\* was removed.
C3_Witness ==
  /\ last.op = "handlePtyCreate" /\ last.hit
  /\ Len(created) >= 2
  /\ created[1] \notin DOMAIN ptyMap
  /\ created[Len(created)] \in DOMAIN ptyMap

\* The steps in which closePty(id) runs: called directly, or by a close
\* request (PtyManager.closePty, TerminalWindow.closePty).
ClosePtyStep(id) ==
  /\ last'.op \in {"closePty", "handlePtyCloseRequest", "TW.handlePtyCloseRequest"}
  /\ \E sync \in SyncChoices :
       \/ ClosePty(id, sync)
       \/ id \in DOMAIN ptyMap /\ HandlePtyCloseRequest(id, sync)
       \/ id \in DOMAIN ptyMap /\ TWHandlePtyCloseRequest(id, sync)

\* C4: closePty(id) of a registered id destroys the session's Pty and removes
\* the id; closePty(id) of an id not in the map changes nothing, calls no
\* destroy(), sends nothing and throws nothing.
C4_ClosePty ==
  [][\A id \in MsgIds :
       ClosePtyStep(id) =>
         IF id \in DOMAIN ptyMap
         THEN /\ DOMAIN ptyMap' = (DOMAIN ptyMap) \ {id}
              /\ ptys'[ptyMap[id].ptyTerm].destroyCalls
                   > ptys[ptyMap[id].ptyTerm].destroyCalls
              /\ last'.err = "none"
         ELSE /\ UNCHANGED <<ptyMap, ptyCounter, ptys, sent>>
              /\ last'.err = "none"]_vars

\* C4 witness: closePty was called with an id that is not in the map, after
\* a session had been closed.
C4_Witness ==
  /\ last.op = "closePty" /\ ~last.hit
  /\ \E h \in 1..Len(ptys) :
       ptys[h].destroyCalls >= 1 /\ ptys[h].ptyId \notin DOMAIN ptyMap

CloseOps ==
  {"closePty", "handlePtyCloseRequest", "TW.handlePtyCloseRequest",
   "cleanUpPtyWindow", "closed", "onExit"}

\* C5: close is idempotent with respect to events: at most one PTY_CLOSE
\* envelope is ever sent for an id, and no close operation throws.
C5_AtMostOnePtyClose ==
  /\ \A id \in MsgIds : Cardinality(SentFor("PTY_CLOSE", id)) <= 1
  /\ \A i \in 1..Len(sent) : sent[i].type = "PTY_CLOSE" => sent[i].id \in MsgIds
  /\ last.op \in CloseOps => last.err = "none"

\* C5 witness: closePty ran for a session whose exit had already been
\* notified with a PTY_CLOSE, and a second session was closed and then exited.
C5_Witness ==
  /\ last.op = "closePty" /\ ~last.hit
  /\ \E h \in 1..Len(ptys) :
       /\ ptys[h].exited
       /\ SentFor("PTY_CLOSE", ptys[h].ptyId) # {}
  /\ \E h \in 1..Len(ptys) : ptys[h].exited /\ ptys[h].destroyCalls = 2

\* C6 (as claimed): destroy() is invoked at most once on the Pty of every
\* session, whatever the order of closePty, window cleanup and exit.
C6_DestroyAtMostOnce ==
  \A h \in 1..Len(ptys) : ptys[h].destroyCalls <= 1

\* C7 (as claimed), in the form a finite run refutes: PTY_CLOSE is only sent
\* by the exit handler, so once the exit of a close-requested session has
\* been notified the PTY_CLOSE{id} has been sent to the creating front-end.
C7_CloseRequestAlwaysAnswered ==
  \A h \in 1..Len(ptys) :
    (ptys[h].exited /\ ptys[h].ptyId \in closeRequested) =>
      \E i \in SentFor("PTY_CLOSE", ptys[h].ptyId) : sent[i].win = ptys[h].sender

\* C7 witness: a close request reached a live session and the PTY_CLOSE for
\* it was sent on the connection that created it.
C7_Witness ==
  /\ last.op = "onExit" /\ last.hit
  /\ \E h \in 1..Len(ptys) :
       /\ ptys[h].ptyId \in closeRequested
       /\ ptys[h].exited
       /\ ptys[h].destroyCalls = 2
       /\ \E i \in SentFor("PTY_CLOSE", ptys[h].ptyId) : sent[i].win = ptys[h].sender

\* C8: after the PTY_CLOSE{id} of a session no PTY_OUTPUT{id} is sent: in
\* the envelopes of one id, no PTY_OUTPUT comes after the PTY_CLOSE.
C8_NoOutputAfterClose ==
  \A i, j \in 1..Len(sent) :
    (i < j /\ sent[i].type = "PTY_CLOSE" /\ sent[i].id = sent[j].id)
      => sent[j].type # "PTY_OUTPUT"

\* C8 witness: a session sent output and then its PTY_CLOSE.
C8_Witness ==
  \E i, j \in 1..Len(sent) :
    /\ i < j
    /\ sent[i].type = "PTY_OUTPUT"
    /\ sent[j].type = "PTY_CLOSE"
    /\ sent[i].id = sent[j].id

\* C9 (as claimed): a Pty that closePty or a window cleanup has destroyed and
\* deregistered, and that emits data before its exit is notified, causes no
\* PTY_OUTPUT envelope.
C9_NoOutputAfterDeregistration ==
  [][\A h \in Handles, data \in Data :
       (/\ last'.op = "onData"
        /\ PtyData(h, data)
        /\ ptys[h].destroyCalls >= 1
        /\ ptys[h].ptyId \notin DOMAIN ptyMap) => sent' = sent]_vars

\* The steps in which a message naming an id that is not in the map is
\* handled.
MsgStep(id) ==
  /\ ~last'.hit
  /\ \/ \E data \in Data : HandlePtyInput(id, data)
     \/ \E size \in Sizes : HandlePtyOutputBufferSize(id, size)
     \/ \E columns \in Columns, rows \in Rows : HandlePtyResize(id, columns, rows)
     \/ \E sync \in SyncChoices : HandlePtyCloseRequest(id, sync)
     \/ \E sync \in SyncChoices : TWHandlePtyCloseRequest(id, sync)

\* C10: a PTY_INPUT, PTY_RESIZE, PTY_OUTPUT_BUFFER_SIZE or PTY_CLOSE_REQUEST
\* whose id is not in the map is dropped: no Pty is called, the map and the
\* counter are unchanged, nothing is sent and nothing is thrown.
C10_UnknownIdDropped ==
  [][\A id \in MsgIds :
       (MsgStep(id) /\ id \notin DOMAIN ptyMap) =>
         /\ UNCHANGED <<ptyMap, ptyCounter, ptys, sent>>
         /\ last'.err = "none"]_vars

\* C10 witness: a PTY_INPUT naming an id that is not in the map was handled
\* after a session had exited and while another session is registered.
C10_Witness ==
  /\ last.op = "handlePtyInput" /\ ~last.hit
  /\ \E h \in 1..Len(ptys) : ptys[h].exited
  /\ DOMAIN ptyMap # {}

\* The PTY_OUTPUT envelopes sent for id, in send order.
IsOutputFor(e, id) == e.type = "PTY_OUTPUT" /\ e.id = id

OutputFor(id) == SelectSeq(sent, LAMBDA e : IsOutputFor(e, id))

\* The chunks the Pty with handle h emitted while its session was alive.
IsAliveChunk(c) == c.alive

AliveChunks(h) == SelectSeq(emitted[h], IsAliveChunk)

\* C11: while a session is alive, the PTY_OUTPUT envelopes sent for it are
\* the chunks its Pty emitted: one envelope per chunk, same content, same
\* order, on the connection of the session.  The chunks emitted while alive
\* are the first chunks of the Pty, the envelopes for them are the first
\* envelopes of the id, and there are never more envelopes than chunks.
C11_OutputMatchesEmission ==
  \A h \in 1..Len(ptys) :
    LET O == OutputFor(ptys[h].ptyId)
        A == AliveChunks(h)
    IN /\ Len(A) <= Len(O)
       /\ Len(O) <= Len(emitted[h])
       /\ \A k \in 1..Len(A) :
            /\ emitted[h][k].alive
            /\ O[k].data = A[k].data
            /\ O[k].win = ptys[h].sender
            /\ O[k].live

\* C11 witness: an alive session emitted two different chunks and a PTY_OUTPUT
\* was sent for each.
C11_Witness ==
  \E h \in 1..Len(ptys) :
    /\ Len(AliveChunks(h)) = 2
    /\ emitted[h][1].data # emitted[h][2].data
    /\ Len(OutputFor(ptys[h].ptyId)) = 2
    /\ Len(ptys) = 2

\* The write() calls the Pty with handle h received, in call order.
IsWrite(c) == c.op = "write"

WritesOf(h) == SelectSeq(ptys[h].calls, IsWrite)

\* C12: the Pty of a session receives exactly one write() per PTY_INPUT
\* message addressed to the session while it is registered, in message order
\* and with the message's data.
C12_WritesMatchInput ==
  \A h \in 1..Len(ptys) :
    LET W == WritesOf(h)
        I == written[ptys[h].ptyId]
    IN /\ Len(W) = Len(I)
       /\ \A k \in 1..Len(W) : W[k].data = I[k]

\* C12 witness: a session received two PTY_INPUT messages with different data
\* and its Pty two writes.
C12_Witness ==
  \E h \in 1..Len(ptys) :
    /\ Len(WritesOf(h)) = 2
    /\ written[ptys[h].ptyId][1] # written[ptys[h].ptyId][2]
    /\ Len(ptys) = 2

\* C13: a spawn failure inside createPty reaches the caller and registers
\* nothing: the counter, the map, the Ptys (and so the wired handlers) and the
\* envelopes are unchanged and no id is returned; the counter always equals
\* the number of Ptys spawned, so no id is allocated or skipped without one.
C13_SpawnFailureRegistersNothing ==
  /\ [](ptyCounter = Len(ptys) /\ Len(created) = Len(ptys))
  /\ [][\A w \in Windows, fromPtyId \in FromIds, cwd \in Cwds :
          (/\ last'.op = "handlePtyCreate"
           /\ HandlePtyCreate(w, fromPtyId, cwd, FALSE)) =>
            /\ last'.err = "SpawnError"
            /\ UNCHANGED <<ptyMap, ptyCounter, ptys, sent, created>>]_vars

\* C13 witness: a create failed in spawn while an earlier session is
\* registered, and the counter still names that session.
C13_Witness ==
  /\ last.op = "handlePtyCreate" /\ last.err = "SpawnError"
  /\ ptyCounter = 1
  /\ DOMAIN ptyMap = {1}

\* C14: createPty spawns with working directory d exactly when fromPtyId
\* names a registered session whose getCwd() returns a non-empty directory
\* d; otherwise the spawn options carry no cwd.
C14_CwdInheritedFromRegisteredSession ==
  [][\A w \in Windows, fromPtyId \in FromIds, cwd \in Cwds :
       (/\ last'.op = "handlePtyCreate"
        /\ HandlePtyCreate(w, fromPtyId, cwd, TRUE)) =>
         /\ Len(ptys') = Len(ptys) + 1
         /\ LET given == ptys'[Len(ptys')].options.cwd IN
            IF fromPtyId \in DOMAIN ptyMap /\ cwd # NoCwd /\ cwd # ""
            THEN given = cwd
            ELSE given = NoCwd]_vars

\* C14 witness: a session was spawned in the directory of a registered
\* session named by fromPtyId.
C14_Witness ==
  /\ last.op = "handlePtyCreate" /\ last.hit
  /\ Len(ptys) = 2
  /\ ptys[2].options.cwd = "/home"
  /\ ptys[1].ptyId \in DOMAIN ptyMap

\* The resolver calls and the default-handler calls made so far.
IsResolve(d) == d.who = "promise"

IsHandlerCall(d) == d.who = "handler"

\* The steps in which handleAsyncIpc dispatches msg.
DispatchStep(msg) ==
  /\ dispatched' = dispatched + 1
  /\ HandleAsyncIpc(msg)

\* The calls a step appends to `delivered`.
NewlyDelivered == SubSeq(delivered', Len(delivered) + 1, Len(delivered'))

\* C15 (as claimed): each reply is matched to the oldest pending entry of its
\* kind only, so no inbound envelope resolves two pending entries.
C15_ReplyResolvesOldestOnly ==
  \A i, j \in 1..Len(delivered) :
    (i # j /\ IsResolve(delivered[i]) /\ IsResolve(delivered[j]))
      => delivered[i].at # delivered[j].at

\* C16: on dispatch of an envelope of kind K every pending entry expecting K
\* is resolved with that envelope, in queue order, and removed; the other
\* entries stay, in order.
C16_AllMatchingResolved ==
  [][\A msg \in Inbound :
       DispatchStep(msg) =>
         LET M == SelectSeq(promiseQueue, LAMBDA q : q.messageType = msg.type)
             R == SelectSeq(NewlyDelivered, IsResolve)
         IN /\ promiseQueue' = SelectSeq(promiseQueue, LAMBDA q : q.messageType # msg.type)
            /\ Len(R) = Len(M)
            /\ \A k \in 1..Len(M) :
                 R[k].n = M[k].promise /\ R[k].msg = msg]_vars

\* C16 witness: one envelope resolved two pending entries while an entry of
\* another kind stays pending.
C16_Witness ==
  /\ \E i, j \in 1..Len(delivered) :
       /\ i # j
       /\ IsResolve(delivered[i]) /\ IsResolve(delivered[j])
       /\ delivered[i].at = delivered[j].at
  /\ Len(promiseQueue) = 1

\* C17: the default handlers registered for K are called with an inbound
\* envelope of kind K, all of them in registration order and no other
\* handler, exactly when no pending entry expects K; otherwise no default
\* handler is called.
C17_DefaultHandlersAreFallback ==
  [][\A msg \in Inbound :
       DispatchStep(msg) =>
         LET pending == \E k \in 1..Len(promiseQueue) :
                          promiseQueue[k].messageType = msg.type
             E == SelectSeq(defaultHandlers, LAMBDA t : t.messageType = msg.type)
             H == SelectSeq(NewlyDelivered, IsHandlerCall)
         IN IF pending THEN H = <<>>
            ELSE /\ Len(H) = Len(E)
                 /\ \A k \in 1..Len(E) :
                      H[k].n = E[k].handler /\ H[k].msg = msg]_vars

\* C17 witness: a reply resolved a pending entry and called no handler, and
\* a later envelope of the same kind was passed to the two handlers
\* registered for it.
C17_Witness ==
  \E i, j, k \in 1..Len(delivered) :
    /\ IsResolve(delivered[i])
    /\ IsHandlerCall(delivered[j]) /\ IsHandlerCall(delivered[k])
    /\ delivered[j].n = 1 /\ delivered[k].n = 2 /\ j < k
    /\ delivered[j].at = delivered[k].at
    /\ delivered[i].at < delivered[j].at
    /\ delivered[i].msg.type = delivered[j].msg.type
    /\ \A l \in 1..Len(delivered) :
         delivered[l].at = delivered[i].at => IsResolve(delivered[l])

\* The reply kind the request of an envelope waits for.
ReplyOf(type) == IF type = "CONFIG_REQUEST" THEN "CONFIG" ELSE "THEME_LIST"

\* C18: a pending request is never rejected or dropped: every request made
\* is either still in the pending queue, unresolved, under its reply kind,
\* or was resolved exactly once by an envelope of that kind.
C18_PendingUntilDispatched ==
  \A n \in 1..Len(ipcSent) :
    LET pend == {k \in 1..Len(promiseQueue) : promiseQueue[k].promise = n}
        res  == {i \in 1..Len(delivered) :
                   IsResolve(delivered[i]) /\ delivered[i].n = n}
    IN /\ Cardinality(pend) + Cardinality(res) = 1
       /\ \A k \in pend : promiseQueue[k].messageType = ReplyOf(ipcSent[n].type)
       /\ \A i \in res : delivered[i].msg.type = ReplyOf(ipcSent[n].type)

\* C18 witness: every inbound envelope has been dispatched, one resolved a
\* request, and a request of another kind is still pending.
C18_Witness ==
  /\ dispatched = MaxInbound
  /\ Len(promiseQueue) >= 1
  /\ \E i \in 1..Len(delivered) : IsResolve(delivered[i])
  /\ \E i \in 1..Len(delivered) : IsHandlerCall(delivered[i])

\* C19: the owning window id of a session is the window of the connection
\* that sent its create request, and no step changes the windowId of an id
\* that stays registered.
C19_WindowIdFixedAtCreation ==
  /\ [](\A id \in DOMAIN ptyMap :
          /\ ptys[ptyMap[id].ptyTerm].ptyId = id
          /\ ptyMap[id].windowId = ptys[ptyMap[id].ptyTerm].sender)
  /\ [][\A id \in DOMAIN ptyMap :
          id \in DOMAIN ptyMap' => ptyMap'[id].windowId = ptyMap[id].windowId]_vars
  /\ [][\A w \in Windows, fromPtyId \in FromIds, cwd \in Cwds :
          (/\ last'.op = "handlePtyCreate"
           /\ HandlePtyCreate(w, fromPtyId, cwd, TRUE)) =>
            ptyMap'[ptyCounter'].windowId = w]_vars

\* C19 witness: a session of window 1 is registered after it received a
\* write, and a session created from it for window 2 is registered too.
C19_Witness ==
  /\ Len(ptys) = 2
  /\ DOMAIN ptyMap = {1, 2}
  /\ ptyMap[1].windowId = 1 /\ ptyMap[2].windowId = 2
  /\ ptys[2].options.cwd = "/home"
  /\ ptys[1].calls # <<>>

\* The Pty whose handler produced an envelope of the given type in this step.
Acted(h, type) ==
  CASE type = "PTY_OUTPUT" -> emitted'[h] # emitted[h]
    [] type = "PTY_CLOSE" -> h \in 1..Len(ptys) /\ ptys'[h].exited /\ ~ptys[h].exited
    [] type = "PTY_INPUT_BUFFER_SIZE_CHANGE" ->
         /\ last'.op = "onAvailableWriteBufferSizeChange"
         /\ \E c \in BufferSizeChanges : PtyBufferSizeChangeWithin(h, c, MaxTraffic)
    [] OTHER -> FALSE

\* C20: every envelope the backend sends is a PTY_OUTPUT, PTY_CLOSE or
\* PTY_INPUT_BUFFER_SIZE_CHANGE produced by a handler of one Pty; it carries
\* the id of that Pty's session and is sent on the connection that issued
\* the session's create request.
C20_EnvelopesOnOwnConnection ==
  /\ [](\A i \in 1..Len(sent) :
          \E h \in 1..Len(ptys) :
            sent[i].id = ptys[h].ptyId /\ sent[i].win = ptys[h].sender)
  /\ [][\A i \in NewlySent :
          \E h \in 1..Len(ptys') :
            /\ Acted(h, sent'[i].type)
            /\ sent'[i].id = ptys'[h].ptyId
            /\ sent'[i].win = ptys'[h].sender]_vars

\* C20 witness: two sessions of different windows; envelopes of the three
\* types were sent, for both sessions.
C20_Witness ==
  /\ Len(ptys) = 2
  /\ ptys[1].sender # ptys[2].sender
  /\ \E i, j, k \in 1..Len(sent) :
       /\ sent[i].type = "PTY_OUTPUT"
       /\ sent[j].type = "PTY_INPUT_BUFFER_SIZE_CHANGE"
       /\ sent[k].type = "PTY_CLOSE"
       /\ sent[i].id # sent[j].id

\* The steps in which the exit handler of the Pty with handle h runs.
ExitedNow(h) == h \in 1..Len(ptys) /\ ~ptys[h].exited /\ ptys'[h].exited

\* Whether the handler trace t holds the pattern pat, contiguously.
Contains(t, pat) ==
  \E k \in 1..(Len(t) - Len(pat) + 1) : SubSeq(t, k, k + Len(pat) - 1) = pat

\* The PTY_CLOSE envelopes for id among the envelopes a step sends.
NewCloseFor(id) ==
  {i \in NewlySent : sent'[i].type = "PTY_CLOSE" /\ sent'[i].id = id}

\* C23: when the Pty of a session reports exit and the connection is alive,
\* the handler sends one PTY_CLOSE{id} on it, then destroys the Pty, then
\* removes the id; when the handler has returned the id is not in the map.
C23_ExitSendsCloseThenReleases ==
  [][\A h \in Handles :
       ExitedNow(h) =>
         /\ ptys[h].ptyId \notin DOMAIN ptyMap'
         /\ win'[ptys[h].sender] = "open" =>
              /\ Cardinality(NewCloseFor(ptys[h].ptyId)) = 1
              /\ \A i \in NewCloseFor(ptys[h].ptyId) : sent'[i].win = ptys[h].sender
              /\ Contains(trace', <<"send", "destroy", "delete">>)]_vars

\* C23 witness: the exit of a session was notified from the event loop with
\* its connection alive while another session stays registered.
C23_Witness ==
  /\ last.op = "onExit" /\ last.hit
  /\ trace = <<"send", "destroy", "delete">>
  /\ DOMAIN ptyMap # {}
  /\ \E h \in 1..Len(ptys) : ptys[h].exited /\ ptys[h].destroyCalls = 1

\* C24: the exit of a session whose connection is destroyed sends no
\* PTY_CLOSE but still destroys the Pty and removes the id; no session whose
\* Pty has reported exit is registered.
C24_ExitReclaimsWithoutConnection ==
  /\ [](\A h \in 1..Len(ptys) :
          ptys[h].exited =>
            /\ ptys[h].ptyId \notin DOMAIN ptyMap
            /\ ptys[h].destroyCalls >= 1)
  /\ [][\A h \in Handles :
          (ExitedNow(h) /\ win'[ptys[h].sender] # "open") =>
            /\ NewCloseFor(ptys[h].ptyId) = {}
            /\ Contains(trace', <<"destroy", "delete">>)
            /\ ptys'[h].destroyCalls > ptys[h].destroyCalls
            /\ ptys[h].ptyId \notin DOMAIN ptyMap']_vars

\* C24 witness: a Pty whose window was closed reported exit from the event
\* loop; no PTY_CLOSE was sent for it and it was destroyed again.
C24_Witness ==
  /\ last.op = "onExit" /\ ~last.hit
  /\ trace = <<"destroy", "delete">>
  /\ \E h \in 1..Len(ptys) :
       /\ ptys[h].exited
       /\ win[ptys[h].sender] = "closed"
       /\ ptys[h].destroyCalls = 2
       /\ SentFor("PTY_CLOSE", ptys[h].ptyId) = {}

\* Whether the session created under id has neither exited nor been closed.
Untouched(id) ==
  \A h \in HandlesOf(id) : ~ptys[h].exited /\ ptys[h].destroyCalls = 0

\* C25: the id of a PTY_CREATED reply is the key under which the new session
\* is registered when the reply is produced; a session that has neither
\* exited nor been closed since is registered under its reply's id, and a
\* PTY_INPUT or PTY_RESIZE naming it reaches its Pty.
C25_CreatedIdIsRegistered ==
  /\ [](\A k \in 1..Len(created) :
          /\ HandlesOf(created[k]) # {}
          /\ Untouched(created[k]) =>
               /\ created[k] \in DOMAIN ptyMap
               /\ ptyMap[created[k]].ptyTerm \in HandlesOf(created[k]))
  /\ [][(last'.op = "handlePtyCreate" /\ last'.hit) =>
          /\ Len(created') = Len(created) + 1
          /\ created'[Len(created')] \in DOMAIN ptyMap'
          /\ created'[Len(created')] \notin DOMAIN ptyMap
          /\ ptyMap'[created'[Len(created')]].ptyTerm = Len(ptys')]_vars
  /\ [][\A k \in 1..Len(created) :
          (/\ last'.op \in {"handlePtyInput", "handlePtyResize"}
           /\ Untouched(created[k])
           /\ \/ \E data \in Data : HandlePtyInput(created[k], data)
              \/ \E columns \in Columns, rows \in Rows :
                   HandlePtyResize(created[k], columns, rows)) =>
            /\ last'.hit
            /\ Len(ptys'[ptyMap[created[k]].ptyTerm].calls)
                 = Len(ptys[ptyMap[created[k]].ptyTerm].calls) + 1]_vars

\* C25 witness: the second PTY_CREATED reply was produced after the first
\* session was closed, and a PTY_INPUT naming its id reached its Pty.
C25_Witness ==
  /\ last.op = "handlePtyInput" /\ last.hit
  /\ Len(created) = 2
  /\ created[1] \notin DOMAIN ptyMap
  /\ created[2] \in DOMAIN ptyMap
  /\ ptys[ptyMap[created[2]].ptyTerm].calls # <<>>

\* The steps in which a PTY_RESIZE or PTY_OUTPUT_BUFFER_SIZE naming id is
\* handled, and the call the message asks for.
SizeStep(id, call) ==
  /\ last'.op \in {"handlePtyResize", "handlePtyOutputBufferSize"}
  /\ \/ /\ call.op = "resize"
        /\ HandlePtyResize(id, call.columns, call.rows)
     \/ /\ call.op = "permittedDataSize"
        /\ HandlePtyOutputBufferSize(id, call.size)

SizeCalls ==
  [op : {"resize"}, columns : Columns, rows : Rows]
    \cup [op : {"permittedDataSize"}, size : Sizes]

\* C29: a PTY_RESIZE or PTY_OUTPUT_BUFFER_SIZE for a registered session
\* calls resize(columns, rows), respectively permittedDataSize(size), once
\* on the Pty of that session with the values of the message, calls nothing
\* on any other Pty, and changes neither the map nor the counter nor the
\* envelopes sent.
C29_SizeMessagesReachOwnPtyOnly ==
  [][\A id \in MsgIds, call \in SizeCalls :
       (SizeStep(id, call) /\ id \in DOMAIN ptyMap) =>
         /\ ptys'[ptyMap[id].ptyTerm].calls
              = Append(ptys[ptyMap[id].ptyTerm].calls, call)
         /\ \A h \in 1..Len(ptys) : h # ptyMap[id].ptyTerm => ptys'[h] = ptys[h]
         /\ Len(ptys') = Len(ptys)
         /\ [ptys' EXCEPT ![ptyMap[id].ptyTerm].calls = <<>>]
              = [ptys EXCEPT ![ptyMap[id].ptyTerm].calls = <<>>]
         /\ UNCHANGED <<ptyMap, ptyCounter, sent>>]_vars

\* C29 witness: of two registered sessions the second was resized and the
\* first received no call.
C29_Witness ==
  /\ last.op = "handlePtyResize" /\ last.hit
  /\ DOMAIN ptyMap = {1, 2}
  /\ ptys[ptyMap[1].ptyTerm].calls = <<>>
  /\ ptys[ptyMap[2].ptyTerm].calls = <<[op |-> "resize", columns |-> 80, rows |-> 24]>>

\* The steps in which request(msg, replyType) runs for one of the request
\* functions of the bridge.
RequestStep(type) ==
  /\ ipcSent' # ipcSent
  /\ \/ type = "CONFIG_REQUEST" /\ RequestConfig
     \/ type = "THEME_LIST_REQUEST" /\ RequestThemeList

\* The promises some call of `d` resolved.
ResolvedIn(d) == {d[i].n : i \in {k \in 1..Len(d) : IsResolve(d[k])}}

\* C26: request(msg, replyType) sends its envelope once and appends one
\* entry {resolver, replyType} at the tail of the pending queue, within the
\* call, so no envelope is dispatched in between; when an envelope of kind K
\* is dispatched, every request made for K is registered or was resolved
\* before, hence is resolved by then.
C26_RequestRegistersAtTail ==
  /\ [][\A type \in {"CONFIG_REQUEST", "THEME_LIST_REQUEST"} :
          RequestStep(type) =>
            /\ ipcSent' = Append(ipcSent, [type |-> type])
            /\ promiseQueue' =
                 Append(promiseQueue, [promise |-> Len(ipcSent) + 1,
                                       messageType |-> ReplyOf(type)])
            /\ UNCHANGED <<delivered, dispatched, defaultHandlers>>]_vars
  /\ [][\A msg \in Inbound :
          DispatchStep(msg) =>
            \A n \in 1..Len(ipcSent) :
              ReplyOf(ipcSent[n].type) = msg.type => n \in ResolvedIn(delivered')]_vars

\* C26 witness: a request was made after a dispatch while another request
\* was pending, and its entry is the last of the queue.
C26_Witness ==
  /\ dispatched >= 1
  /\ Len(promiseQueue) = 2
  /\ Len(ipcSent) = 3
  /\ promiseQueue[2].promise = 3
  /\ promiseQueue[1].messageType # promiseQueue[2].messageType

\* C27: after handleAsyncIpc processed an envelope of kind K the pending
\* queue holds the entries expecting another kind, all of them, in their
\* order, and this dispatch resolved none of them.
C27_DispatchPartitionsQueue ==
  [][\A msg \in Inbound :
       DispatchStep(msg) =>
         LET rest == {k \in 1..Len(promiseQueue) : promiseQueue[k].messageType # msg.type}
         IN /\ Len(promiseQueue') = Cardinality(rest)
            /\ \A k \in rest :
                 promiseQueue'[Cardinality({j \in rest : j <= k})] = promiseQueue[k]
            /\ \A k \in 1..Len(promiseQueue') :
                 /\ promiseQueue'[k].messageType # msg.type
                 /\ promiseQueue'[k].promise \notin ResolvedIn(delivered')]_vars

\* C27 witness: a dispatch resolved an entry between two entries of the
\* other kind, which stay pending in their order.
C27_Witness ==
  /\ Len(promiseQueue) = 2
  /\ promiseQueue[1].promise = 1 /\ promiseQueue[2].promise = 3
  /\ 2 \in ResolvedIn(delivered)

\* C28: entries expecting the same kind are resolved in submission order:
\* of two resolver calls for one kind, the one of the earlier request comes
\* first.
C28_SameKindResolvedInSubmissionOrder ==
  \A i, j \in 1..Len(delivered) :
    (/\ i < j
     /\ IsResolve(delivered[i]) /\ IsResolve(delivered[j])
     /\ delivered[i].msg.type = delivered[j].msg.type)
      => delivered[i].n < delivered[j].n

\* C28 witness: one envelope resolved the first and the third request, a
\* request of the other kind having been made between them.
C28_Witness ==
  /\ Len(delivered) >= 2
  /\ IsResolve(delivered[1]) /\ IsResolve(delivered[2])
  /\ delivered[1].n = 1 /\ delivered[2].n = 3
  /\ delivered[1].at = delivered[2].at

\* C30: a pending entry is resolved at most once: the dispatch that resolves
\* it removes it from the queue, so no later envelope of its kind resolves
\* it again.
C30_ResolvedAtMostOnce ==
  /\ [](\A i, j \in 1..Len(delivered) :
          (IsResolve(delivered[i]) /\ IsResolve(delivered[j])
             /\ delivered[i].n = delivered[j].n) => i = j)
  /\ [][\A msg \in Inbound :
          DispatchStep(msg) =>
            \A n \in ResolvedIn(NewlyDelivered) :
              /\ \E k \in 1..Len(promiseQueue) : promiseQueue[k].promise = n
              /\ \A k \in 1..Len(promiseQueue') : promiseQueue'[k].promise # n]_vars

\* C30 witness: two envelopes of one kind were dispatched one after the
\* other, the first resolved the first request and the second resolved only
\* the second request.
C30_Witness ==
  /\ Len(delivered) = 2
  /\ IsResolve(delivered[1]) /\ IsResolve(delivered[2])
  /\ delivered[1].n = 1 /\ delivered[2].n = 2
  /\ delivered[1].at = 1 /\ delivered[2].at = 2
  /\ delivered[1].msg.type = delivered[2].msg.type
  /\ promiseQueue = <<>>

\* The steps in which a blocking request function runs and the main process
\* answers with `reply`.
SyncStep(reply) ==
  /\ syncCall'.reply.type = reply.type
  /\ \/ reply.type = "NEW_TAG" /\ RequestNewTagSync(reply)
     \/ reply.type = "BULK_FILE_CREATED" /\ CreateBulkFileSync(reply)

\* What a blocking request function is to return for `reply`.
SyncResult(reply) ==
  IF reply.type = "NEW_TAG" THEN reply.tag
  ELSE [identifier |-> reply.identifier, url |-> reply.url]

\* C21: requestNewTagSync and createBulkFileSync add no entry to the
\* pending queue, remove and resolve none, call no default handler, and
\* return the tag, respectively the identifier and url, of the reply to
\* their own ipc.sendSync call; the pending queue is the same before and
\* after.
C21_SyncRequestsBypassQueue ==
  [][\A reply \in NewTagReplies \cup BulkFileReplies :
       SyncStep(reply) =>
         /\ UNCHANGED <<promiseQueue, delivered, defaultHandlers, ipcSent, dispatched>>
         /\ syncCall'.reply = reply
         /\ syncCall'.ret = SyncResult(reply)]_vars

\* C21 witness: requestNewTagSync returned the tag of its reply while an
\* asynchronous request for a NEW_TAG is pending, unresolved, and another
\* request was resolved.
C21_Witness ==
  /\ syncCall.msg = [type |-> "NEW_TAG_REQUEST", async |-> FALSE]
  /\ syncCall.ret = "tag2"
  /\ \E k \in 1..Len(promiseQueue) : promiseQueue[k].messageType = "NEW_TAG"
  /\ \E i \in 1..Len(delivered) :
       IsResolve(delivered[i]) /\ delivered[i].msg.type # "NEW_TAG"

\* The pairing of request kinds and reply kinds.
PairedReply(type) ==
  CASE type = "CONFIG_REQUEST" -> "CONFIG"
    [] type = "THEME_LIST_REQUEST" -> "THEME_LIST"
    [] type = "THEME_CONTENTS_REQUEST" -> "THEME_CONTENTS"
    [] type = "PTY_CREATE" -> "PTY_CREATED"
    [] type = "NEW_TAG_REQUEST" -> "NEW_TAG"

\* The reply kind request n was registered under: the kind of its pending
\* entry or of the envelope that resolved it.
RegisteredKinds(n) ==
  {promiseQueue[k].messageType :
     k \in {j \in 1..Len(promiseQueue) : promiseQueue[j].promise = n}}
  \cup {delivered[i].msg.type :
          i \in {j \in 1..Len(delivered) :
                   IsResolve(delivered[j]) /\ delivered[j].n = n}}

\* C22: every asynchronous request is registered under the one reply kind
\* paired with its request kind (CONFIG_REQUEST->CONFIG,
\* THEME_LIST_REQUEST->THEME_LIST, THEME_CONTENTS_REQUEST->THEME_CONTENTS,
\* PTY_CREATE->PTY_CREATED, NEW_TAG_REQUEST->NEW_TAG); requests of distinct
\* kinds are registered under distinct reply kinds, so an envelope resolves
\* only entries of the request kind it is the reply to.
C22_RequestKindsPairedOneToOne ==
  /\ \A n \in 1..Len(ipcSent) :
       RegisteredKinds(n) = {PairedReply(ipcSent[n].type)}
  /\ \A n, m \in 1..Len(ipcSent) :
       ipcSent[n].type # ipcSent[m].type
         => RegisteredKinds(n) \cap RegisteredKinds(m) = {}
  /\ \A i \in 1..Len(delivered) :
       IsResolve(delivered[i])
         => delivered[i].msg.type = PairedReply(ipcSent[delivered[i].n].type)

\* C22 witness: a NEW_TAG envelope resolved the requestNewTag() made between
\* a requestPtyCreate() and a requestThemeContents(), which stay pending.
C22_Witness ==
  /\ Len(ipcSent) = 3
  /\ ipcSent[1].type = "PTY_CREATE"
  /\ ipcSent[2].type = "NEW_TAG_REQUEST"
  /\ ipcSent[3].type = "THEME_CONTENTS_REQUEST"
  /\ Len(promiseQueue) = 2
  /\ \E i \in 1..Len(delivered) :
       IsResolve(delivered[i]) /\ delivered[i].n = 2
         /\ delivered[i].msg.type = "NEW_TAG"

\* C31 (as claimed): the backend never sends an envelope on a destroyed
\* connection: every envelope sent by the data, exit and
\* write-buffer-size-change handlers of a session was sent while the
\* connection of its sender was not destroyed.
C31_NoSendOnDestroyedConnection ==
  \A i \in 1..Len(sent) : sent[i].live

\* The ids returned by successful createPty calls, and those of them that
\* closePty, a window cleanup or the exit handler removed: each of the three
\* calls destroy() on the Pty of the id it removes.
CreatedIds == {created[k] : k \in 1..Len(created)}

RemovedIds ==
  {id \in CreatedIds : \E h \in HandlesOf(id) : ptys[h].destroyCalls > 0}

\* C32: the ids in the session map are the ids returned by successful
\* createPty calls minus those removed by closePty, window cleanup or exit;
\* every key lies in 1..ptyCounter; ptyCounter is the number of successful
\* creates and never decreases.
C32_RegistryConsistent ==
  /\ [](/\ DOMAIN ptyMap = CreatedIds \ RemovedIds
        /\ DOMAIN ptyMap \subseteq 1..ptyCounter
        /\ ptyCounter = Len(created)
        /\ ptyCounter = Len(ptys))
  /\ [][/\ ptyCounter' >= ptyCounter
        /\ ptyCounter' > ptyCounter => last'.op = "handlePtyCreate"
        /\ (DOMAIN ptyMap') \ (DOMAIN ptyMap) \subseteq {ptyCounter'} \ {ptyCounter}]_vars

\* C32 witness: the first session was removed by its exit handler, the
\* second is registered, and the counter stands at two.
C32_Witness ==
  /\ ptyCounter = 2
  /\ DOMAIN ptyMap = {2}
  /\ last.op = "onExit"
  /\ ptys[1].exited /\ ptys[1].destroyCalls = 1

\* The two flow-control fields of the tuple registered for id.
FlowFields(m, id) ==
  [outputBufferSize |-> m[id].outputBufferSize, outputPaused |-> m[id].outputPaused]

EnvKeys == {"TERM", "HOME"}
EnvValues == {"xterm", "vt100", "/home"}
Envs == UNION {[D -> EnvValues] : D \in SUBSET EnvKeys}

\* MainWebUi._createPtyForTerminal: the environment sent with the create
\* request.
NewEnv(processEnv, expandedExtra) ==
  LET e1 == MapSet(processEnv, "IS_EXTRATERM", "y")
      e2 == MapSet(e1, "TERM", "xterm-256color")
  IN [k \in (DOMAIN e2) \cup (DOMAIN expandedExtra) |->
        IF k \in DOMAIN expandedExtra THEN expandedExtra[k] ELSE e2[k]]

\* _.clone(env): a new object with the entries of the object at `ref`.
clone(heap, ref) == [heap |-> Append(heap, heap[ref]), ref |-> Len(heap) + 1]

\* Mutant of createPty_ptyEnv: TERM is written to the caller's map itself.
createPty_ptyEnv_InPlace(heap, env) ==
  [heap |-> [heap EXCEPT ![env] = MapSet(@, "TERM", "xterm")], ref |-> env]

\* createPty: ptyEnv = _.clone(env); ptyEnv["TERM"] = "xterm"; the result
\* names the object that becomes ptyOptions.env.
createPty_ptyEnv(heap, env) ==
  LET c == clone(heap, env)
  IN [heap |-> [c.heap EXCEPT ![c.ref] = MapSet(@, "TERM", "xterm")], ref |-> c.ref]

\* The front-end builds the environment of a new terminal and the create
\* request carrying it arrives at the backend as msg.env.
CreatePtyForTerminal ==
  /\ envHeap = <<>>
  /\ envHeap' = <<NewEnv(procEnv, extraEnv)>>
  /\ UNCHANGED <<procEnv, extraEnv, spawnEnv, backendVars, bridgeVars, uiVars>>

\* createPty runs up to the spawn call with msg.env.
CreatePtySpawn ==
  /\ Len(envHeap) = 1
  /\ spawnEnv = 0
  /\ LET r == createPty_ptyEnv(envHeap, 1) IN
     /\ envHeap' = r.heap
     /\ spawnEnv' = r.ref
  /\ UNCHANGED <<procEnv, extraEnv, backendVars, bridgeVars, uiVars>>

\* Any process environment and any profile environment.
EnvInit ==
  /\ InitBackend /\ InitBridge /\ InitUi /\ InitTabs
  /\ procEnv \in Envs
  /\ extraEnv \in Envs
  /\ envHeap = <<>>
  /\ spawnEnv = 0

EnvNext == CreatePtyForTerminal \/ CreatePtySpawn

EnvSpec == EnvInit /\ [][EnvNext]_vars

\* C34: createPty does not modify the environment map of its caller, and
\* the environment given to spawn has the caller's entries on every key but
\* TERM, and TERM = "xterm" whatever the caller supplied.
C34_SpawnEnvIsCallerEnvWithTerm ==
  /\ [](spawnEnv # 0 =>
          /\ envHeap[1] = NewEnv(procEnv, extraEnv)
          /\ DOMAIN envHeap[spawnEnv] = (DOMAIN envHeap[1]) \cup {"TERM"}
          /\ \A k \in (DOMAIN envHeap[1]) \ {"TERM"} :
               envHeap[spawnEnv][k] = envHeap[1][k]
          /\ envHeap[spawnEnv]["TERM"] = "xterm")
  /\ [][spawnEnv' # spawnEnv => envHeap'[1] = envHeap[1]]_vars

\* C34 witness: the profile set TERM to vt100 and HOME; spawn was given
\* TERM = xterm and the same HOME, and the caller's map still says vt100.
C34_Witness ==
  /\ spawnEnv # 0
  /\ extraEnv = [k \in EnvKeys |-> IF k = "TERM" THEN "vt100" ELSE "/home"]
  /\ envHeap[1]["TERM"] = "vt100"
  /\ envHeap[spawnEnv]["TERM"] = "xterm"
  /\ envHeap[spawnEnv]["HOME"] = "/home"
  /\ envHeap[spawnEnv]["IS_EXTRATERM"] = "y"

\* ------------------------------------------- the tab / pty close handshake
\* WebIpc.ptyClose
ptyClose(b, id) ==
  [b EXCEPT !.ipcSent = Append(@, [type |-> "PTY_CLOSE_REQUEST", id |-> id])]

\* destroy() of the front-end Pty proxy of session id: the call is forwarded
\* as a close request naming the session.
PtyProxy_destroy(b, id) == ptyClose(b, id)

\* The front-end state closeTab reads and writes.
CurUi == [closeTabCalls |-> closeTabCalls, b |-> CurBridge]

\* MainWebUi.closeTab for the terminal tab of session id: the tab content is
\* removed, the terminal destroyed and its pty destroyed.
closeTab(u, id) ==
  [u EXCEPT !.closeTabCalls[id] = @ + 1, !.b = PtyProxy_destroy(@, id)]

\* The onExit listener _createPtyForTerminal gives the pty of a new
\* terminal.
PtyProxy_onExit(u, id) == closeTab(u, id)

InstallUi(u) ==
  /\ closeTabCalls' = u.closeTabCalls
  /\ InstallBridgeState(u.b)
  /\ UNCHANGED dispatched

\* The user closes the tab of the terminal of session id.
UserClosesTab(id) ==
  /\ id \in CreatedIds
  /\ closeTabCalls[id] = 0
  /\ InstallUi(closeTab(CurUi, id))
  /\ UNCHANGED <<backendVars, envVars, fetched, recv, tabVars>>

\* The backend handles the next envelope of the front-end, a
\* PTY_CLOSE_REQUEST.
BackendFetches(sync) ==
  /\ fetched < Len(ipcSent)
  /\ ipcSent[fetched + 1].type = "PTY_CLOSE_REQUEST"
  /\ LET id == ipcSent[fetched + 1].id
         t == handlePtyCloseRequest(Cur, id, sync) IN
     /\ InstallBackend(t)
     /\ last' = Last("handlePtyCloseRequest", id \in DOMAIN ptyMap, t.err)
     /\ closeRequested' = CloseRequests(Cur, id)
  /\ fetched' = fetched + 1
  /\ UNCHANGED <<win, msgs, created, emitted, written, bridgeVars, envVars,
                 closeTabCalls, recv, tabVars>>

\* The front-end dispatches the next envelope of the backend; a PTY_CLOSE
\* fires the exit event of the proxy of its session.
FrontendDispatches ==
  /\ recv < Len(sent)
  /\ recv' = recv + 1
  /\ LET msg == sent[recv + 1] IN
     IF msg.type = "PTY_CLOSE"
     THEN InstallUi(PtyProxy_onExit(CurUi, msg.id))
     ELSE UNCHANGED <<closeTabCalls, bridgeVars>>
  /\ UNCHANGED <<backendVars, envVars, fetched, tabVars>>

\* Terminals are opened, closed by the user, and their processes exit;
\* envelopes travel both ways.
HandshakeNext ==
  \/ \E w \in Windows, spawnOk \in BOOLEAN : HandlePtyCreate(w, 0, NoCwd, spawnOk)
  \/ \E id \in MsgIds : UserClosesTab(id)
  \/ \E sync \in SyncChoices : BackendFetches(sync)
  \/ FrontendDispatches
  \/ \E h \in Handles : PtyExit(h)

\* Envelopes sent are delivered, and a Pty that was destroyed notifies its
\* exit.
HandshakeFairness ==
  /\ WF_vars(\E sync \in SyncChoices : BackendFetches(sync))
  /\ WF_vars(FrontendDispatches)
  /\ \A h \in Handles : WF_vars(PtyExitAfterDestroy(h))

HandshakeSpec == Init /\ [][HandshakeNext]_vars /\ HandshakeFairness

\* Nothing is in flight: every envelope was handled and every destroyed Pty
\* has notified its exit.
Quiescent ==
  /\ fetched = Len(ipcSent)
  /\ recv = Len(sent)
  /\ \A h \in 1..Len(ptys) : ptys[h].destroyCalls > 0 => ptys[h].exited

\* The close requests the front-end sent for id.
CloseRequestsFor(id) ==
  {i \in 1..Len(ipcSent) :
     ipcSent[i].type = "PTY_CLOSE_REQUEST" /\ ipcSent[i].id = id}

\* C35: the close handshake terminates.  A closeTab destroys the pty proxy,
\* which sends one close request; the exit of the pty closes the tab again
\* and the request of that second destroy names an id that is gone and is
\* dropped.  For every session there are at most two closeTab calls, two
\* close requests and one PTY_CLOSE, and after a user close or a process
\* exit the system comes to rest, for good.
C35_CloseHandshakeTerminates ==
  /\ [](\A id \in MsgIds :
          /\ closeTabCalls[id] <= 2
          /\ Cardinality(CloseRequestsFor(id)) = closeTabCalls[id]
          /\ Cardinality(SentFor("PTY_CLOSE", id)) <= 1)
  /\ [][(recv' = recv + 1 /\ Len(ipcSent') > Len(ipcSent)) =>
          ipcSent'[Len(ipcSent')].id \notin DOMAIN ptyMap]_vars
  /\ [][(fetched' = fetched + 1 /\ last'.hit) =>
          \A i \in CloseRequestsFor(ipcSent[fetched + 1].id) : i >= fetched + 1]_vars
  /\ \A id \in MsgIds :
       (closeTabCalls[id] > 0 \/ \E h \in HandlesOf(id) : ptys[h].exited)
         ~> (Quiescent /\ id \notin DOMAIN ptyMap /\ closeTabCalls[id] >= 1)
  /\ <>[]Quiescent

\* C35 witness: the user closed the tab of session 1; the pty was destroyed,
\* its exit closed the tab a second time, the second close request was
\* dropped, and nothing is in flight.
C35_Witness ==
  /\ Quiescent
  /\ closeTabCalls[1] = 2
  /\ Cardinality(SentFor("PTY_CLOSE", 1)) = 1
  /\ fetched = 2
  /\ last.op = "handlePtyCloseRequest" /\ ~last.hit
  /\ 1 \notin DOMAIN ptyMap

\* ------------------------------------------------------------ tab shifting
\* Mutant of _shiftTab: the index stops at the ends instead of wrapping.
_shiftTab_Clamped(t, direction) ==
  IF t.len = 0 THEN t
  ELSE LET i0 == t.selectedIndex + direction
           i  == IF i0 < 0 THEN 0 ELSE IF i0 >= t.len THEN t.len - 1 ELSE i0
       IN [t EXCEPT !.selectedIndex = i, !.focused = i]

\* MainWebUi._shiftTab
_shiftTab(t, direction) ==
  IF t.len = 0 THEN t
  ELSE LET i0 == t.selectedIndex + direction
           i  == IF i0 < 0 THEN t.len - 1 ELSE IF i0 >= t.len THEN 0 ELSE i0
       IN [t EXCEPT !.selectedIndex = i, !.focused = i]

\* The user selects the tab to the left (-1) or to the right (+1).
ShiftTab(direction) ==
  /\ Len(shiftLog) < MaxShifts
  /\ tabWidget' = _shiftTab(tabWidget, direction)
  /\ shiftLog' = Append(shiftLog, [from |-> tabWidget.selectedIndex,
                                   direction |-> direction])
  /\ UNCHANGED <<backendVars, bridgeVars, envVars, closeTabCalls, fetched, recv>>

\* A tab widget with any number of tab contents, one of them selected.
TabInit ==
  /\ InitBackend /\ InitBridge /\ InitEnv /\ InitUi
  /\ shiftLog = <<>>
  /\ tabWidget \in
       {EmptyTabWidget} \cup
       {[len |-> n, selectedIndex |-> i, focused |-> i] :
          n \in 1..MaxTabs, i \in 0..(MaxTabs - 1)}
  /\ tabWidget.selectedIndex < tabWidget.len

TabNext == \E direction \in {-1, 1} : ShiftTab(direction)

TabSpec == TabInit /\ [][TabNext]_vars

\* C36: _shiftTab with direction -1 or +1 selects (i + direction) wrapped
\* cyclically into 0..len-1: from 0 to the left it selects len-1, from len-1
\* to the right it selects 0; the selected index is always a valid index,
\* the selected content is focused, and an empty tab widget is left as it
\* is.
C36_ShiftTabWrapsCyclically ==
  /\ [](tabWidget.len > 0 => tabWidget.selectedIndex \in 0..(tabWidget.len - 1))
  /\ [][\A direction \in {-1, 1} :
          (Len(shiftLog') = Len(shiftLog) + 1 /\ ShiftTab(direction)) =>
            IF tabWidget.len = 0 THEN tabWidget' = tabWidget
            ELSE /\ tabWidget'.len = tabWidget.len
                 /\ tabWidget'.selectedIndex =
                      (tabWidget.selectedIndex + direction + tabWidget.len) % tabWidget.len
                 /\ (tabWidget.selectedIndex = 0 /\ direction = -1)
                      => tabWidget'.selectedIndex = tabWidget.len - 1
                 /\ (tabWidget.selectedIndex = tabWidget.len - 1 /\ direction = 1)
                      => tabWidget'.selectedIndex = 0
                 /\ tabWidget'.focused = tabWidget'.selectedIndex]_vars

\* C36 witness: in a widget of three tabs the selection went left from 0 to
\* 2 and then right from 2 to 0.
C36_Witness ==
  /\ tabWidget.len = 3
  /\ shiftLog = <<[from |-> 0, direction |-> -1], [from |-> 2, direction |-> 1]>>
  /\ tabWidget.selectedIndex = 0

\* C37: cleanUpPtyWindow, of PtyManager and of TerminalWindow, returns
\* without error: every key of the snapshot taken at entry is in the map
\* when the loop reads it, also when the sessions closed before it were
\* removed by closePty and by an exit notification fired from inside
\* destroy(); the keys of the other windows are all still there afterwards.
C37_CleanUpNeverReadsMissingEntry ==
  /\ [](last.err # "TypeError")
  /\ [][\A w \in Windows :
          CleanUpStep(w) =>
            /\ last'.err = "none"
            /\ \A key \in DOMAIN ptyMap :
                 key \in DOMAIN ptyMap' <=> ptyMap[key].windowId # w]_vars

\* C37 witness: a cleanup closed the two sessions of one window, both Ptys
\* notified their exit from inside destroy(), and no error was raised.
C37_Witness ==
  /\ last.op \in {"cleanUpPtyWindow", "closed"} /\ last.hit /\ last.err = "none"
  /\ Len(ptys) = 2
  /\ ptys[1].sender = ptys[2].sender
  /\ \A h \in 1..2 : ptys[h].exited /\ ptys[h].destroyCalls = 2
  /\ Len(SelectSeq(trace, LAMBDA e : e = "delete")) = 4
  /\ ptyMap = <<>>

====
